---- MODULE Spec2Model ----
(***************************************************************************)
(* A model of agkbuild.py: the AppGameKit project descriptor and its       *)
(* release-folder namer (AgkProject), the exports of AgkCompiler           *)
(* (export_apk, export_html5, export_windows, export_linux) and the build  *)
(* orchestrator (AgkBuild.__init__).                                       *)
(*                                                                         *)
(* Text is modelled as a sequence of one-character strings, so that the    *)
(* character-level rules of the source (re.sub, str.join, f-strings) are   *)
(* computed rather than assumed.                                           *)
(***************************************************************************)
EXTENDS Integers, Sequences, FiniteSets, TLC

VARIABLES
    name,           \* AgkProject._name
    version,        \* AgkProject._version
    release_name,   \* AgkProject._release_name
    call,           \* the last get_release_folder call: its arguments and result
    ini,            \* IniFile._sections of the project: section -> key -> value
    mode,           \* "build": AgkBuild(...) runs; "direct": the script called an
                    \* export method of AgkCompiler itself; "none": neither
    pc,             \* the statement the running constructor or export has reached
    exc,            \* the exception in flight or raised: its kind and where from
    target,         \* the Platform member being exported
    cursor,         \* AgkBuild.__init__: how far down the export list it has come
    platforms,      \* AgkBuild argument
    exclude_media,  \* AgkBuild argument
    include_files,  \* AgkBuild argument
    kwargs,         \* the keyword overrides given to AgkBuild (or to the export)
    call_kwargs,    \* the kwargs the running export was called with
    loc,            \* the local variables of the running export
    release_paths,  \* AgkBuild.release_paths
    main_agc,       \* file <base>/main.agc: its content
    backup_agc,     \* file <base>/main.agc.backup: its content
    media,          \* directory <base>/media: path -> content
    media_exclude,  \* directory <base>/media_exclude: path -> content
    media_exclude_dir, \* whether <base>/media_exclude exists
    build_tmp,      \* whether <base>/build_tmp exists
    release_tree    \* the directories and files under <base>/release

projVars == <<name, version, release_name, call>>

argVars == <<platforms, exclude_media, include_files, kwargs, ini>>

fsVars == <<main_agc, backup_agc, media, media_exclude, media_exclude_dir,
            build_tmp, release_tree>>

runVars == <<mode, pc, exc, target, cursor, call_kwargs, loc, release_paths>>

vars == <<projVars, argVars, fsVars, runVars>>

----------------------------------------------------------------------------
(* Text helpers *)

\* Python's None where a string may stand: a value no text is equal to.
None == <<"<None>">>

\* The truth value Python gives a str-or-None in "if v".
Truthy(v) == v # None /\ v # <<>>

Lower == {"a","b","c","d","e","f","g","h","i","j","k","l","m",
          "n","o","p","q","r","s","t","u","v","w","x","y","z"}
Upper == {"A","B","C","D","E","F","G","H","I","J","K","L","M",
          "N","O","P","Q","R","S","T","U","V","W","X","Y","Z"}
Digit == {"0","1","2","3","4","5","6","7","8","9"}

\* The characters the class [A-Za-z0-9_] matches.
SafeChars == Lower \cup Upper \cup Digit \cup {"_"}

\* sep.join(parts)
RECURSIVE Join(_, _)
Join(parts, sep) ==
    IF parts = <<>> THEN <<>>
    ELSE IF Len(parts) = 1 THEN parts[1]
    ELSE parts[1] \o sep \o Join(Tail(parts), sep)

----------------------------------------------------------------------------
(* _Architecture *)

\* The members of the IntFlag in definition order: (name, value).
ArchMembers == << [name |-> <<"x","8","6">>, value |-> 1],
                  [name |-> <<"x","6","4">>, value |-> 2] >>

\* self & a.value, for a single-bit value
HasFlag(flags, value) == (flags \div value) % 2 = 1

\* The bug the mutant stands for: the member names are joined whole (a.name
\* where the code has a.name[1:]) and the leading 'x' is not added.
ArchStr_WholeNames(arch) ==
    LET present == SelectSeq(ArchMembers, LAMBDA a : HasFlag(arch, a.value))
    IN  Join([i \in 1..Len(present) |-> present[i].name], <<"_">>)

\* _Architecture.__str__
ArchStr(arch) ==
    LET present == SelectSeq(ArchMembers, LAMBDA a : HasFlag(arch, a.value))
    IN  <<"x">> \o Join([i \in 1..Len(present) |-> Tail(present[i].name)], <<"_">>)

----------------------------------------------------------------------------
(* AgkProject *)

base_path == "BASE"

\* The bug the mutant stands for: the name is used as it is.
safe_name_Unfiltered == name

\* AgkProject.safe_name: re.sub(r'[^A-Za-z0-9_]', '', self.name)
safe_name == SelectSeq(name, LAMBDA c : c \in SafeChars)

\* The bug the mutant stands for: "is not None" where the code tests truth,
\* so that an empty version or qualifier still gets its separator.
get_release_folder_NotNone(platform_name, architectures) ==
    LET release_folder ==
            safe_name
            \o (IF version # None THEN <<"_">> \o version ELSE <<>>)
            \o <<"_">> \o platform_name
            \o (IF architectures # 0 THEN <<"_">> \o ArchStr(architectures) ELSE <<>>)
            \o (IF release_name # None THEN <<"_">> \o release_name ELSE <<>>)
    IN  <<base_path, "release", release_folder>>

\* AgkProject.get_release_folder. architectures = 0 stands for both None and
\* the empty flag: either is false in "if architectures".
get_release_folder(platform_name, architectures) ==
    LET release_folder ==
            safe_name
            \o (IF Truthy(version) THEN <<"_">> \o version ELSE <<>>)
            \o <<"_">> \o platform_name
            \o (IF architectures # 0 THEN <<"_">> \o ArchStr(architectures) ELSE <<>>)
            \o (IF Truthy(release_name) THEN <<"_">> \o release_name ELSE <<>>)
    IN  <<base_path, "release", release_folder>>

----------------------------------------------------------------------------
(* The values the namer is exercised with *)

S_MyGame  == <<"M","y","G","a","m","e">>
S_My_G    == <<"M","y"," ","G","!">>
S_a_      == <<"a","_">>
S_dash    == <<"-">>
S_1_2     == <<"1",".","2">>
S__1      == <<"_","1">>
S_beta    == <<"b","e","t","a">>
S_d_      == <<"d","_">>
S_windows == <<"w","i","n","d","o","w","s">>
S_linux   == <<"l","i","n","u","x">>
S_html5   == <<"h","t","m","l","5">>
S_android_google == <<"a","n","d","r","o","i","d","_","g","o","o","g","l","e">>
S_android_amazon == <<"a","n","d","r","o","i","d","_","a","m","a","z","o","n">>
S_android_ouya   == <<"a","n","d","r","o","i","d","_","o","u","y","a">>

Names == {S_MyGame, S_My_G, S_a_, S_dash}
\* a version read from main.agc is the non-empty group of "(.+)"
FoundVersions == {S_1_2, S__1}
SetVersions == {None, <<>>, S_1_2, S__1}
ReleaseNames == {None, <<>>, S_beta, S_d_}
PlatformNames == {S_windows, S_linux, S_html5,
                  S_android_google, S_android_amazon, S_android_ouya}
\* every value of _Architecture, 0 for "no architectures"
Architectures == 0..3

NoCall == [made |-> FALSE]

----------------------------------------------------------------------------
(* Settings: the project file's sections and the keyword overrides *)

\* the text is a non-empty run of digits
IsDigits(t) == t # <<>> /\ \A i \in 1..Len(t) : t[i] \in Digit

\* int(text) raises ValueError unless the text is a run of digits, which a
\* minus sign may precede
IsInt(t) ==
    /\ t # None /\ t # <<>>
    /\ IF t[1] = "-" THEN IsDigits(Tail(t)) ELSE IsDigits(t)

DigitVal(c) ==
    CASE c = "0" -> 0 [] c = "1" -> 1 [] c = "2" -> 2 [] c = "3" -> 3 [] c = "4" -> 4
      [] c = "5" -> 5 [] c = "6" -> 6 [] c = "7" -> 7 [] c = "8" -> 8 [] c = "9" -> 9

\* the number a run of digits writes
RECURSIVE NatOf(_)
NatOf(t) ==
    IF t = <<>> THEN 0
    ELSE NatOf(SubSeq(t, 1, Len(t) - 1)) * 10 + DigitVal(t[Len(t)])

\* int(text)
IntOf(t) == IF t # <<>> /\ t[1] = "-" THEN 0 - NatOf(Tail(t)) ELSE NatOf(t)

\* The settings export_html5 reads.
Html5Names == {"commands_used", "dynamic_memory"}

\* The settings export_apk reads from the project file.
ApkNames == {"app_name", "package_name", "app_icon_path", "notif_icon_path",
             "ouya_icon_path", "firebase_config_path", "orientation", "arcore",
             "sdk_version", "url_scheme", "deep_link", "play_app_id",
             "admob_app_id", "permission_flags", "keystore_path",
             "version_name", "version_number", "alias"}

\* The settings export_apk takes from the overrides alone.
ApkPasswordNames == {"keystore_password", "alias_password"}

\* The override keys: f'apk_{name}' is <<"apk", name>>, f'html5_{name}' is
\* <<"html5", name>>.
OverrideKeys ==
    {<<"apk", n>> : n \in ApkNames \cup ApkPasswordNames}
    \cup {<<"html5", n>> : n \in Html5Names}

\* no override at all
NoKwargs == [k \in OverrideKeys |-> None]

\* IniFile.__getitem__: self._sections[section][key]; None stands for the
\* KeyError of an absent section or key.
IniGet(section, key) == ini[section][key]

\* get_value of export_apk and export_html5:
\*   kwargs.get(f'{prefix}_{name}', project[section, name])
\* Python evaluates the default before the call, so the stored value is
\* looked up (and its KeyError raised) whether or not an override is given.
get_value(prefix, section, n) ==
    [raised |-> IniGet(section, n) = None,
     value  |-> IF call_kwargs[<<prefix, n>>] # None THEN call_kwargs[<<prefix, n>>]
                ELSE IniGet(section, n)]

----------------------------------------------------------------------------
(* The filesystem *)

Absent == "absent"
Dir == "dir"

\* The media folder the model works on: a file, a folder, a file in it.
\* A path is the sequence of its components below media/.
P_a   == <<"a.png">>
P_snd == <<"snd">>
P_b   == <<"snd", "b.wav">>
MediaPaths == {P_a, P_snd, P_b}

\* the project's media folder as AgkBuild finds it
OriginalMedia == [p \in MediaPaths |->
                    IF p = P_a THEN "bytes of a.png"
                    ELSE IF p = P_snd THEN Dir ELSE "bytes of b.wav"]

EmptyTree == [p \in MediaPaths |-> Absent]

\* os.path.split(path)[0], <<>> for the folder itself
Parent(p) == SubSeq(p, 1, Len(p) - 1)

\* p itself and everything below it
Under(p) == {q \in MediaPaths : Len(q) >= Len(p) /\ SubSeq(q, 1, Len(p)) = p}

\* os.makedirs(os.path.split(dst)[0], exist_ok=True) for dst = tree/p
MakeParentDirs(tree, p) ==
    [q \in MediaPaths |-> IF q = Parent(p) /\ tree[q] = Absent THEN Dir ELSE tree[q]]

\* os.rename(from/p, to/p) raises: no such source, no folder to put it in,
\* or something already at the destination.
RenameFails(from, to, p) ==
    \/ from[p] = Absent
    \/ Parent(p) # <<>> /\ to[Parent(p)] # Dir
    \/ to[p] # Absent

\* the two trees after os.rename(from/p, to/p): p moves with what is below it
RenameFrom(from, p) == [q \in MediaPaths |-> IF q \in Under(p) THEN Absent ELSE from[q]]
RenameTo(from, to, p) == [q \in MediaPaths |-> IF q \in Under(p) THEN from[q] ELSE to[q]]

\* _rmtree(folder): the FileNotFoundError of the folder itself is ignored,
\* every other error is raised (other_error: the filesystem refuses).
rmtree(exists, other_error) ==
    IF ~exists THEN [exists |-> FALSE, raised |-> FALSE]
    ELSE IF other_error THEN [exists |-> TRUE, raised |-> TRUE]
    ELSE [exists |-> FALSE, raised |-> FALSE]

\* an entry of the release tree: a folder, or a file in it
ReleaseDir(path) == [dir |-> path, file |-> "."]
ReleaseFile(path, file) == [dir |-> path, file |-> file]

----------------------------------------------------------------------------
(* Exceptions *)

\* kind: the exception's class; step: the part of the code that raised it;
\* what: the setting or rule it is about
NoExc == [kind |-> "none", step |-> "none", what |-> "none"]
Raise(kind, step) == [kind |-> kind, step |-> step, what |-> "none"]
RaiseAbout(kind, step, what) == [kind |-> kind, step |-> step, what |-> what]

----------------------------------------------------------------------------
(* The project descriptor as a state machine *)

\* AgkProject.__init__: the name is the file name, the version the first
\* VERSION constant of main.agc if there is one, no release name.
InitProject ==
    /\ name \in Names
    /\ version \in FoundVersions \cup {None}
    /\ release_name = None
    /\ call = NoCall

\* name.setter
SetName(value) ==
    /\ name' = value
    /\ call' = NoCall
    /\ UNCHANGED <<version, release_name>>
    /\ UNCHANGED <<argVars, fsVars, runVars>>

\* version.setter
SetVersion(value) ==
    /\ version' = value
    /\ call' = NoCall
    /\ UNCHANGED <<name, release_name>>
    /\ UNCHANGED <<argVars, fsVars, runVars>>

\* release_name.setter
SetReleaseName(value) ==
    /\ release_name' = value
    /\ call' = NoCall
    /\ UNCHANGED <<name, version>>
    /\ UNCHANGED <<argVars, fsVars, runVars>>

\* a call of get_release_folder, its result kept
CallGetReleaseFolder(platform_name, architectures) ==
    /\ call' = [made |-> TRUE,
                platform_name |-> platform_name,
                architectures |-> architectures,
                result |-> get_release_folder(platform_name, architectures)]
    /\ UNCHANGED <<name, version, release_name>>
    /\ UNCHANGED <<argVars, fsVars, runVars>>

NextNamer ==
    \/ \E v \in Names : SetName(v)
    \/ \E v \in SetVersions : SetVersion(v)
    \/ \E v \in ReleaseNames : SetReleaseName(v)
    \/ \E p \in PlatformNames, a \in Architectures : CallGetReleaseFolder(p, a)


----------------------------------------------------------------------------
(* export_html5: the data file and the loader script (lines 1130-1197) *)

\* A media folder as os.walk goes through it: the files and the folders of
\* media/ in the order the filesystem lists them, and the files of each
\* folder. A file is its name and the number of its bytes.
File(n, length) == [name |-> n, length |-> length]
Folder(n, files) == [name |-> n, files |-> files]

IGNORE_FILES == {<<"T","h","u","m","b","s",".","d","b">>}

\* lines 1149-1153: os.walk is top-down, so dirnames is the folders of media/
\* and filenames the files of media/ and then those of each folder; a path is
\* the sequence of its components below media/.
walk_dirnames(tree) == [i \in 1..Len(tree.dirs) |-> <<tree.dirs[i].name>>]

Kept(files) == SelectSeq(files, LAMBDA f : f.name \notin IGNORE_FILES)

InFolder(d) == [i \in 1..Len(Kept(d.files)) |->
                  [path |-> <<d.name, Kept(d.files)[i].name>>,
                   length |-> Kept(d.files)[i].length]]

RECURSIVE FolderFiles(_)
FolderFiles(dirs) ==
    IF dirs = <<>> THEN <<>> ELSE InFolder(Head(dirs)) \o FolderFiles(Tail(dirs))

walk_filenames(tree) ==
    [i \in 1..Len(Kept(tree.files)) |->
        [path |-> <<Kept(tree.files)[i].name>>, length |-> Kept(tree.files)[i].length]]
    \o FolderFiles(tree.dirs)

\* os.path.join(src, os.path.relpath(filepath, srcfull)) with src = '/media'
ShortPath(path) == Join(<<<<"/","m","e","d","i","a">>>> \o path, <<"/">>)

\* lines 1155-1162: the FS_createPath directive of a folder: its parent's path
\* and its own name
FolderDirective(path) ==
    [parent |-> ShortPath(SubSeq(path, 1, Len(path) - 1)), name |-> path[Len(path)]]

\* line 1133: the directive the string starts with
MediaDirective == [parent |-> <<"/">>, name |-> <<"m","e","d","i","a">>]

\* os.path.splitext(filename)[1]: the name from its last dot on, or nothing
\* when there is no dot or only dots come before the last one
LastDot(t) ==
    IF \E i \in 1..Len(t) : t[i] = "."
    THEN CHOOSE i \in 1..Len(t) : t[i] = "." /\ \A j \in (i + 1)..Len(t) : t[j] # "."
    ELSE 0

splitext_ext(t) ==
    LET d == LastDot(t)
    IN  IF d = 0 \/ \A i \in 1..(d - 1) : t[i] = "." THEN <<>>
        ELSE SubSeq(t, d, Len(t))

AudioExtensions == {<<".","m","p","3">>, <<".","m","4","a">>, <<".","w","a","v">>, <<".","o","g","g">>}

\* the entry with the audio flag taken from the end of the name alone
FileEntry_BySuffix(f, currpos) ==
    [audio    |-> IF \E x \in AudioExtensions :
                        LET n == f.path[Len(f.path)]
                        IN  Len(n) >= Len(x) /\ SubSeq(n, Len(n) - Len(x) + 1, Len(n)) = x
                  THEN 1 ELSE 0,
     start    |-> currpos,
     crunched |-> 0,
     end      |-> currpos + f.length,
     filename |-> ShortPath(f.path)]

\* lines 1164-1176: the entry of the load package for file f put at currpos
FileEntry(f, currpos) ==
    [audio    |-> IF splitext_ext(f.path[Len(f.path)]) \in AudioExtensions THEN 1 ELSE 0,
     start    |-> currpos,
     crunched |-> 0,
     end      |-> currpos + f.length,
     filename |-> ShortPath(f.path)]

\* The two variables of AGKPlayer.js (line 1189)
ADDITIONALFOLDERS == <<"%","%","A","D","D","I","T","I","O","N","A","L","F","O","L","D","E","R","S","%","%">>
LOADPACKAGE == <<"%","%","L","O","A","D","P","A","C","K","A","G","E","%","%">>

\* the matches re.subn finds of a literal in a text: leftmost, not overlapping
RECURSIVE Occurrences(_, _)
Occurrences(t, sub) ==
    IF Len(t) < Len(sub) THEN 0
    ELSE IF SubSeq(t, 1, Len(sub)) = sub
    THEN 1 + Occurrences(SubSeq(t, Len(sub) + 1, Len(t)), sub)
    ELSE Occurrences(Tail(t), sub)

\* The matches of a variable in additional_folders_string: the text around
\* the paths and names has no "%", so every match is inside one of them.
RECURSIVE InDirectives(_, _)
InDirectives(directives, sub) ==
    IF directives = <<>> THEN 0
    ELSE Occurrences(Head(directives).parent, sub)
         + Occurrences(Head(directives).name, sub)
         + InDirectives(Tail(directives), sub)

\* AGKPlayer.js as the installation has it: how often each variable is in it
MaxTokens == 2
LoaderTemplates == [folders : 0..MaxTokens, load : 0..MaxTokens]

\* the substitution without the test of the count
SubstituteLoader_Unchecked(template, directives) ==
    [raised |-> FALSE, what |-> "none", folders |-> template.folders,
     load |-> template.load + template.folders * InDirectives(directives, LOADPACKAGE)]

\* Lines 1189-1194: re.subn replaces every match of the first variable by
\* additional_folders_string, then every match of the second in the result
\* by load_package_string; no match is a ValueError about the variable.
SubstituteLoader(template, directives) ==
    LET load == template.load + template.folders * InDirectives(directives, LOADPACKAGE)
    IN  IF template.folders = 0
        THEN [raised |-> TRUE, what |-> "%%ADDITIONALFOLDERS%%", folders |-> 0, load |-> 0]
        ELSE IF load = 0
        THEN [raised |-> TRUE, what |-> "%%LOADPACKAGE%%",
              folders |-> template.folders, load |-> 0]
        ELSE [raised |-> FALSE, what |-> "none",
              folders |-> template.folders, load |-> load]

----------------------------------------------------------------------------
(* AgkCompiler.export_html5 *)

\* HTML5_COMMANDS_FOLDER[commands_used][dynamic_memory]
HTML5_COMMANDS_FOLDER(commands_used, dynamic_memory) ==
    IF commands_used = 0
    THEN (IF dynamic_memory THEN "2Ddynamic" ELSE "2D")
    ELSE (IF dynamic_memory THEN "3Ddynamic" ELSE "3D")

\* AGKPlayer.js not yet filled in
NoLoader == [raised |-> FALSE, what |-> "none", folders |-> 0, load |-> 0]

\* an export leaves by an exception raised before its try block
ExportRaises(kind, step) ==
    /\ exc' = Raise(kind, step)
    /\ pc' = "export_end"
    /\ UNCHANGED loc

\* Lines 1102-1124: the settings are resolved and checked.
Html5Resolve ==
    /\ pc = "html5_resolve"
    /\ LET cu == get_value("html5", "html5_settings", "commands_used")
           dm == get_value("html5", "html5_settings", "dynamic_memory")
       IN  IF cu.raised THEN ExportRaises("KeyError", "resolve")
           ELSE IF ~IsInt(cu.value) THEN ExportRaises("ValueError", "resolve")
           ELSE IF IntOf(cu.value) \notin {0, 1} THEN ExportRaises("ValueError", "resolve")
           ELSE IF dm.raised THEN ExportRaises("KeyError", "resolve")
           ELSE /\ loc' = [commands_used   |-> IntOf(cu.value),
                           dynamic_memory  |-> dm.value # <<>>,
                           commands_folder |-> HTML5_COMMANDS_FOLDER(IntOf(cu.value),
                                                                    dm.value # <<>>),
                           output_folder   |-> get_release_folder(S_html5, 0),
                           loader          |-> NoLoader]
                /\ pc' = "html5_stage"
                /\ UNCHANGED exc
    /\ UNCHANGED <<projVars, argVars, fsVars, mode, target, cursor, call_kwargs,
                   release_paths>>

\* Lines 1126-1128: the old scratch folder is removed and the template copied.
\* copytree fails without the template folder, or part of the way through.
Html5Stage ==
    /\ pc = "html5_stage"
    /\ \E other_error \in BOOLEAN, copy \in {"ok", "no source", "partial"} :
        LET r == rmtree(build_tmp, other_error)
        IN  IF r.raised
            THEN /\ build_tmp' = r.exists
                 /\ exc' = Raise("OSError", "stage")
                 /\ pc' = "html5_cleanup"
            ELSE /\ build_tmp' = (copy # "no source")
                 /\ exc' = IF copy = "ok" THEN exc ELSE Raise("OSError", "stage")
                 /\ pc' = IF copy = "ok" THEN "html5_synth" ELSE "html5_cleanup"
    /\ UNCHANGED <<projVars, argVars, main_agc, backup_agc, media, media_exclude,
                   media_exclude_dir, release_tree, mode, target, cursor,
                   call_kwargs, loc, release_paths>>

\* Lines 1130-1197: the data file is built (a file may fail to open or to be
\* read) and the loader script of the installation filled in. The folders of
\* the project's media are not named like a variable of the loader.
Html5Synth ==
    /\ pc = "html5_synth"
    /\ \E io \in {"ok", "OSError"}, template \in LoaderTemplates :
        LET r == SubstituteLoader(template, <<MediaDirective>>)
        IN  IF io # "ok"
            THEN /\ exc' = Raise("OSError", "synth")
                 /\ pc' = "html5_cleanup"
                 /\ UNCHANGED loc
            ELSE /\ loc' = [loc EXCEPT !.loader = r]
                 /\ exc' = IF r.raised THEN RaiseAbout("ValueError", "synth", r.what)
                           ELSE exc
                 /\ pc' = IF r.raised THEN "html5_cleanup" ELSE "html5_output"
    /\ UNCHANGED <<projVars, argVars, fsVars, mode, target, cursor, call_kwargs,
                   release_paths>>

\* Lines 1199-1213: the release folder is made anew and filled.
Html5Output ==
    /\ pc = "html5_output"
    /\ \E copied \in BOOLEAN :
        /\ release_tree' = release_tree \cup {ReleaseDir(loc.output_folder)}
        /\ exc' = IF copied THEN exc ELSE Raise("OSError", "output")
        /\ pc' = "html5_cleanup"
    /\ UNCHANGED <<projVars, argVars, main_agc, backup_agc, media, media_exclude,
                   media_exclude_dir, build_tmp, mode, target, cursor,
                   call_kwargs, loc, release_paths>>

\* Lines 1214-1216: finally _rmtree(temp_folder), then the return or the
\* exception in flight; an exception of the finally block replaces it.
Html5Cleanup ==
    /\ pc = "html5_cleanup"
    /\ \E other_error \in BOOLEAN :
        LET r == rmtree(build_tmp, other_error)
        IN  /\ build_tmp' = r.exists
            /\ exc' = IF r.raised THEN Raise("OSError", "cleanup") ELSE exc
            /\ pc' = "export_end"
    /\ UNCHANGED <<projVars, argVars, main_agc, backup_agc, media, media_exclude,
                   media_exclude_dir, release_tree, mode, target, cursor,
                   call_kwargs, loc, release_paths>>

----------------------------------------------------------------------------
(* AgkCompiler.export_apk: the settings (lines 410-473) *)

APK_TYPE_GOOGLE == 0
APK_TYPE_AMAZON == 1
APK_TYPE_OUYA == 2

\* the app_type AgkBuild passes for each APK platform
AppType(p) ==
    CASE p = "GOOGLE_APK" -> APK_TYPE_GOOGLE
      [] p = "AMAZON_APK" -> APK_TYPE_AMAZON
      [] p = "OUYA_APK" -> APK_TYPE_OUYA

\* f"android_{APK_TYPE_NAMES[app_type].lower()}"
ApkPlatformName(app_type) ==
    CASE app_type = APK_TYPE_GOOGLE -> S_android_google
      [] app_type = APK_TYPE_AMAZON -> S_android_amazon
      [] app_type = APK_TYPE_OUYA -> S_android_ouya

\* the values of the Orientation enum
OrientationValues == {6, 7, 10}

\* [ORIENTATION_LANDSCAPE, ORIENTATION_PORTRAIT, ORIENTATION_ALL]
OrientationByIndex == <<6, 7, 10>>

\* the indices a Python list takes: 0 .. len-1, and -len .. -1 from its end
IndicesOf(list) == (0 - Len(list))..(Len(list) - 1)

\* list[i]
AtIndex(list, i) == IF i >= 0 THEN list[i + 1] ELSE list[Len(list) + i + 1]

\* AgkCompiler.ORIENTATION_NAMES
ORIENTATION_NAMES(orientation) ==
    CASE orientation = 6 -> "sensorLandscape"
      [] orientation = 7 -> "sensorPortrait"
      [] orientation = 10 -> "fullSensor"

\* SDK_VERSIONS[1..12]: entry 0 of the list is None
SDK_VERSIONS ==
    << [version |-> <<"4",".","1">>, api |-> 16], [version |-> <<"4",".","2">>, api |-> 17],
       [version |-> <<"4",".","3">>, api |-> 18], [version |-> <<"4",".","4">>, api |-> 19],
       [version |-> <<"5",".","0">>, api |-> 21], [version |-> <<"5",".","1">>, api |-> 22],
       [version |-> <<"6",".","0">>, api |-> 23], [version |-> <<"7",".","0">>, api |-> 24],
       [version |-> <<"7",".","1">>, api |-> 25], [version |-> <<"8",".","0">>, api |-> 26],
       [version |-> <<"8",".","1">>, api |-> 27], [version |-> <<"9",".","0">>, api |-> 28] >>

\* the override of a setting of the running export, None when not given
Override(n) == call_kwargs[<<"apk", n>>]

\* "if orientation:" for an override that is an int (written in decimal):
\* None and 0 are false
OverrideTruthy(v) == v # None /\ v # <<>> /\ ~(IsInt(v) /\ IntOf(v) = 0)

\* get_value(name) of export_apk
ApkValue(n) == get_value("apk", "apk_settings", n)

Ok == [kind |-> "none", what |-> "none"]
Err(kind, what) == [kind |-> kind, what |-> what]

\* the error of a plain get_value(name)
ReadErr(n) == IF ApkValue(n).raised THEN Err("KeyError", n) ELSE Ok

\* int(get_value(name))
IntErr(n) ==
    IF ApkValue(n).raised THEN Err("KeyError", n)
    ELSE IF ~IsInt(ApkValue(n).value) THEN Err("ValueError", n)
    ELSE Ok

\* Lines 421-428: the override is used when it is true, as a value of the
\* enum; otherwise the stored setting is an index into the three values.
OrientationErr ==
    IF OverrideTruthy(Override("orientation"))
    THEN (IF IsInt(Override("orientation"))
             /\ IntOf(Override("orientation")) \in OrientationValues
          THEN Ok ELSE Err("ValueError", "orientation"))
    ELSE IF IniGet("apk_settings", "orientation") = None THEN Err("KeyError", "orientation")
    ELSE IF ~IsInt(IniGet("apk_settings", "orientation")) THEN Err("ValueError", "orientation")
    ELSE IF IntOf(IniGet("apk_settings", "orientation")) \notin IndicesOf(OrientationByIndex)
         THEN Err("IndexError", "orientation")
    ELSE Ok

OrientationOf ==
    IF OverrideTruthy(Override("orientation"))
    THEN IntOf(Override("orientation"))
    ELSE AtIndex(OrientationByIndex, IntOf(IniGet("apk_settings", "orientation")))

\* Line 429: ArCoreMode(int(get_value('arcore')))
ArcoreErr ==
    IF IntErr("arcore") # Ok THEN IntErr("arcore")
    ELSE IF IntOf(ApkValue("arcore").value) \notin {0, 1, 2} THEN Err("ValueError", "arcore")
    ELSE Ok

\* The place in the Python list the stored sdk_version index names, counted
\* from its start: the list has None and then the twelve versions, and a
\* negative index counts from its end.
SdkIndex ==
    LET i == IntOf(IniGet("apk_settings", "sdk_version"))
    IN  IF i >= 0 THEN i ELSE Len(SDK_VERSIONS) + 1 + i

\* Lines 430-439: an override is a version text looked up in SDK_VERSIONS;
\* the stored setting is an index into it (entry 0 is None: a TypeError).
SdkErr ==
    IF Truthy(Override("sdk_version"))
    THEN (IF \E i \in 1..Len(SDK_VERSIONS) : SDK_VERSIONS[i].version = Override("sdk_version")
          THEN Ok ELSE Err("ValueError", "sdk_version"))
    ELSE IF IniGet("apk_settings", "sdk_version") = None THEN Err("KeyError", "sdk_version")
    ELSE IF ~IsInt(IniGet("apk_settings", "sdk_version")) THEN Err("ValueError", "sdk_version")
    ELSE IF SdkIndex \notin 0..Len(SDK_VERSIONS) THEN Err("IndexError", "sdk_version")
    ELSE IF SdkIndex = 0 THEN Err("TypeError", "sdk_version")
    ELSE Ok

SdkOf ==
    IF Truthy(Override("sdk_version"))
    THEN SDK_VERSIONS[CHOOSE i \in 1..Len(SDK_VERSIONS) :
                        SDK_VERSIONS[i].version = Override("sdk_version")].api
    ELSE SDK_VERSIONS[SdkIndex].api

\* the first error of a run of statements, Ok when none raises
RECURSIVE FirstErr(_)
FirstErr(errs) ==
    IF errs = <<>> THEN Ok
    ELSE IF Head(errs) # Ok THEN Head(errs)
    ELSE FirstErr(Tail(errs))

\* Lines 415-454 in the order they run.
ApkResolveErr ==
    FirstErr(<< ReadErr("app_name"), ReadErr("package_name"),
                ReadErr("app_icon_path"), ReadErr("notif_icon_path"),
                ReadErr("ouya_icon_path"), ReadErr("firebase_config_path"),
                OrientationErr, ArcoreErr, SdkErr,
                ReadErr("url_scheme"), ReadErr("deep_link"),
                ReadErr("play_app_id"), ReadErr("admob_app_id"),
                IntErr("permission_flags"), ReadErr("keystore_path"),
                ReadErr("version_name"), IntErr("version_number"),
                ReadErr("alias") >>)

\* The text each setting resolves to: what get_value returns, and for
\* orientation and sdk_version the override when it is true, else the
\* stored text.
ApkRaw(n) ==
    IF n = "orientation"
    THEN (IF OverrideTruthy(Override(n)) THEN Override(n) ELSE IniGet("apk_settings", n))
    ELSE IF n = "sdk_version"
    THEN (IF Truthy(Override(n)) THEN Override(n) ELSE IniGet("apk_settings", n))
    ELSE ApkValue(n).value

\* kwargs.get('apk_keystore_password', '') and kwargs.get('apk_alias_password', '')
PasswordOf(n) == IF Override(n) # None THEN Override(n) ELSE <<>>

\* AndroidManifest.xml and values.xml of the scratch folder, not yet written
NoManifest == [written |-> FALSE]
NoValues == [written |-> FALSE]

\* no Firebase config: none was read, or the file is one json.load cannot read
NoConfig == [readable |-> FALSE, fields |-> {}, client |-> <<>>]

\* The local variables of export_apk after line 473. tool_input is what
\* aapt2 was run on: nothing yet, the batch the block wrote in full, or the
\* part of it written before the block failed.
ApkLocals(app_type) ==
    [app_type          |-> app_type,
     raw               |-> [n \in ApkNames |-> ApkRaw(n)],
     orientation       |-> OrientationOf,
     arcore_mode       |-> IntOf(ApkValue("arcore").value),
     app_sdk           |-> SdkOf,
     permission_flags  |-> IntOf(ApkValue("permission_flags").value),
     build_number      |-> IntOf(ApkValue("version_number").value),
     keystore_file     |-> ApkValue("keystore_path").value,
     keystore_password |-> PasswordOf("keystore_password"),
     alias_name        |-> ApkValue("alias").value,
     alias_password    |-> PasswordOf("alias_password"),
     output_folder     |-> get_release_folder(ApkPlatformName(app_type), 0),
     header            |-> <<>>,
     tool_input        |-> "none",
     manifest          |-> NoManifest,
     values            |-> NoValues,
     config            |-> NoConfig]

\* Lines 410-473: every setting is resolved, or the first failure raised.
ApkResolve ==
    /\ pc = "apk_resolve"
    /\ IF ApkResolveErr # Ok
       THEN /\ exc' = RaiseAbout(ApkResolveErr.kind, "resolve", ApkResolveErr.what)
            /\ pc' = "export_end"
            /\ UNCHANGED loc
       ELSE /\ loc' = ApkLocals(AppType(target))
            /\ pc' = "apk_checks"
            /\ UNCHANGED exc
    /\ UNCHANGED <<projVars, argVars, fsVars, mode, target, cursor, call_kwargs,
                   release_paths>>

----------------------------------------------------------------------------
(* AgkCompiler.export_apk: the checks (lines 475-570) *)

Contains(t, c) == \E i \in 1..Len(t) : t[i] = c

StartsWith(t, prefix) ==
    Len(t) >= Len(prefix) /\ SubSeq(t, 1, Len(prefix)) = prefix

EndsWith(t, suffix) ==
    Len(t) >= Len(suffix) /\ SubSeq(t, Len(t) - Len(suffix) + 1, Len(t)) = suffix

\* re.search(r'[^...]', t) for a character class
HasCharOutside(t, class) == \E i \in 1..Len(t) : t[i] \notin class

\* the files the checks look for that are there (os.path.exists)
F_icon     == <<"i",".","p","n","g">>
F_jpg      == <<"i",".","j","p","g">>
F_ouya     == <<"o",".","p","n","g">>
F_missing  == <<"m",".","p","n","g">>
F_firebase == <<"f",".","j","s","o","n">>
F_text     == <<"f",".","t","x","t">>
F_keystore == <<"k",".","k","s">>
ExistingFiles == {F_icon, F_jpg, F_ouya, F_firebase, F_text, F_keystore}

\* the images that are 732 pixels wide and 412 high
OuyaSized == {F_ouya}

\* include_firebase, include_push_notify, include_google_play, include_admob
\* (lines 563-566), of the settings v and the app type. The bug the mutant
\* stands for: include_firebase does not look at the config path.
IncludeFirebase_AnyPath(v, app_type) ==
    app_type \in {APK_TYPE_GOOGLE, APK_TYPE_AMAZON}
IncludeFirebase(v, app_type) ==
    Truthy(v["firebase_config_path"]) /\ app_type \in {APK_TYPE_GOOGLE, APK_TYPE_AMAZON}
IncludePushNotify(flags, app_type) == HasFlag(flags, 128) /\ app_type = APK_TYPE_GOOGLE
IncludeGooglePlay(v, app_type) == Truthy(v["play_app_id"]) /\ app_type = APK_TYPE_GOOGLE
IncludeAdmob(v, app_type) == Truthy(v["admob_app_id"]) /\ app_type = APK_TYPE_GOOGLE

\* a raise statement of the checks: its condition and the setting it names
Rule(fails, what) == [fails |-> fails, what |-> what]

\* the first rule of a run that fails, "none" when all pass
RECURSIVE FirstFailure(_)
FirstFailure(rules) ==
    IF rules = <<>> THEN "none"
    ELSE IF Head(rules).fails THEN Head(rules).what
    ELSE FirstFailure(Tail(rules))

DoubleQuote == "\""

\* The rule the settings break first, "none" when they pass: the raise
\* statements of lines 486-570 in order.
ApkCheckFailure(l) ==
    LET v == l.raw
        app_name == v["app_name"]
        package_name == v["package_name"]
        deep_link == v["deep_link"]
        Letter == Lower \cup Upper
    IN  FirstFailure(<<
          Rule(app_name = <<>>, "app_name"),
          Rule(Len(app_name) > 30, "app_name"),
          Rule(HasCharOutside(app_name, Letter \cup Digit \cup {"-", " ", "_"}), "app_name"),
          Rule(package_name = <<>>, "package_name"),
          Rule(Len(package_name) > 100, "package_name"),
          Rule(~Contains(package_name, "."), "package_name"),
          Rule(package_name # <<>> /\ package_name[1] \notin Letter, "package_name"),
          Rule(package_name # <<>> /\ package_name[Len(package_name)] = ".", "package_name"),
          Rule(\E i \in 1..(Len(package_name) - 1) :
                  package_name[i] = "." /\ package_name[i + 1] \notin Letter,
               "package_name"),
          Rule(HasCharOutside(package_name, Letter \cup Digit \cup {".", "_"}),
               "package_name"),
          Rule(Truthy(v["url_scheme"])
               /\ (Contains(v["url_scheme"], ":") \/ Contains(v["url_scheme"], "/")),
               "url_scheme"),
          Rule(Truthy(deep_link) /\ ~StartsWith(deep_link, <<"h","t","t","p","s",":","/","/">>), "deep_link"),
          Rule(Truthy(deep_link) /\ Len(deep_link) < Len(<<"h","t","t","p","s",":","/","/">>) + 1, "deep_link"),
          Rule(Truthy(v["app_icon_path"]) /\ ~EndsWith(v["app_icon_path"], <<".","p","n","g">>),
               "app_icon"),
          Rule(Truthy(v["app_icon_path"]) /\ v["app_icon_path"] \notin ExistingFiles,
               "app_icon"),
          Rule(Truthy(v["notif_icon_path"]) /\ ~EndsWith(v["notif_icon_path"], <<".","p","n","g">>),
               "notif_icon"),
          Rule(Truthy(v["notif_icon_path"]) /\ v["notif_icon_path"] \notin ExistingFiles,
               "notif_icon"),
          Rule(l.app_type = APK_TYPE_OUYA /\ ~Truthy(v["ouya_icon_path"]), "ouya_icon"),
          Rule(l.app_type = APK_TYPE_OUYA /\ ~EndsWith(v["ouya_icon_path"], <<".","p","n","g">>),
               "ouya_icon"),
          Rule(l.app_type = APK_TYPE_OUYA /\ v["ouya_icon_path"] \notin ExistingFiles,
               "ouya_icon"),
          Rule(Truthy(v["firebase_config_path"])
               /\ ~EndsWith(v["firebase_config_path"], <<".","j","s","o","n">>), "firebase_config"),
          Rule(Truthy(v["firebase_config_path"])
               /\ v["firebase_config_path"] \notin ExistingFiles, "firebase_config"),
          Rule(HasCharOutside(v["version_name"], Digit \cup {"."}), "version_name"),
          Rule(Truthy(l.keystore_file) /\ l.keystore_file \notin ExistingFiles, "keystore"),
          Rule(Truthy(l.keystore_file) /\ l.keystore_password = <<>>, "keystore_password"),
          Rule(Truthy(l.keystore_file) /\ Contains(l.keystore_password, DoubleQuote),
               "keystore_password"),
          Rule(Truthy(l.alias_name) /\ l.alias_password = <<>>, "alias_password"),
          Rule(Truthy(l.alias_name) /\ Contains(l.alias_password, DoubleQuote),
               "alias_password"),
          Rule(IncludePushNotify(l.permission_flags, l.app_type)
               /\ ~IncludeFirebase(v, l.app_type), "push_needs_firebase") >>)

S_debug_keystore == <<"d","e","b","u","g",".","k","e","y","s","t","o","r","e">>
S_android == <<"a","n","d","r","o","i","d">>
S_androiddebugkey == <<"a","n","d","r","o","i","d","d","e","b","u","g","k","e","y">>
S_mykeystore == <<"m","y","k","e","y","s","t","o","r","e">>

\* Lines 580-588: the signing credentials.
Credentials(l) ==
    IF ~Truthy(l.keystore_file)
    THEN [keystore_file |-> S_debug_keystore, keystore_password |-> S_android,
          alias_name |-> S_androiddebugkey, alias_password |-> S_android]
    ELSE IF ~Truthy(l.alias_name)
    THEN [keystore_file |-> l.keystore_file, keystore_password |-> l.keystore_password,
          alias_name |-> S_mykeystore, alias_password |-> l.keystore_password]
    ELSE [keystore_file |-> l.keystore_file, keystore_password |-> l.keystore_password,
          alias_name |-> l.alias_name, alias_password |-> l.alias_password]

\* Lines 475-590. Line 484 makes the folder of the output file, then the
\* settings are checked; a failed check raises before the try block.
ApkChecks ==
    /\ pc = "apk_checks"
    /\ release_tree' = release_tree \cup {ReleaseDir(loc.output_folder)}
    /\ IF ApkCheckFailure(loc) # "none"
       THEN /\ exc' = RaiseAbout("ValueError", "checks", ApkCheckFailure(loc))
            /\ pc' = "export_end"
            /\ UNCHANGED loc
       ELSE /\ loc' = [loc EXCEPT !.keystore_file = Credentials(loc).keystore_file,
                                  !.keystore_password = Credentials(loc).keystore_password,
                                  !.alias_name = Credentials(loc).alias_name,
                                  !.alias_password = Credentials(loc).alias_password]
            /\ pc' = "apk_stage"
            /\ UNCHANGED exc
    /\ UNCHANGED <<projVars, argVars, main_agc, backup_agc, media, media_exclude,
                   media_exclude_dir, build_tmp, mode, target, cursor, call_kwargs,
                   release_paths>>

----------------------------------------------------------------------------
(* AgkCompiler.export_apk: the export (lines 592-1093) *)

\* a line of the manifest header: its element and its android:name
Line(tag, nm) == [tag |-> tag, name |-> nm]

\* android:minSdkVersion and android:targetSdkVersion of the uses-sdk line
MinSdkVersion(l) ==
    IF l.app_type \in {APK_TYPE_GOOGLE, APK_TYPE_AMAZON} THEN l.app_sdk ELSE 15
TargetSdkVersion(l) == IF l.app_type = APK_TYPE_GOOGLE THEN 28 ELSE 15

\* The bug the mutant stands for: the lines of the Google services follow
\* their bit for every app type.
GoogleOnly_AnyVariant(l, bit) == HasFlag(l.permission_flags, bit)

\* Lines 616-634: the condition of the location, billing, push and expansion
\* lines, "permission_flags & Permission.X and app_type == APK_TYPE_GOOGLE".
GoogleOnly(l, bit) ==
    HasFlag(l.permission_flags, bit) /\ l.app_type = APK_TYPE_GOOGLE

\* The bug the mutant stands for: the c2dm RECEIVE permission is written for
\* every app type.
ManifestHeader_ReceiveForAll(l) ==
    LET f == l.permission_flags
        google == l.app_type = APK_TYPE_GOOGLE
        When(cond, lines) == IF cond THEN lines ELSE <<>>
        Uses(nm) == Line("uses-permission", nm)
    IN  << Line("uses-feature", "glEsVersion"), Line("uses-sdk", "") >>
        \o When(HasFlag(f, 1), << Uses("android.permission.WRITE_EXTERNAL_STORAGE") >>)
        \o When(HasFlag(f, 2), << Uses("android.permission.INTERNET"),
                                 Uses("android.permission.ACCESS_NETWORK_STATE"),
                                 Uses("android.permission.ACCESS_WIFI_STATE") >>)
        \o When(HasFlag(f, 4), << Uses("android.permission.WAKE_LOCK") >>)
        \o When(HasFlag(f, 64) /\ google,
                << Uses("android.permission.ACCESS_COARSE_LOCATION") >>)
        \o When(HasFlag(f, 8) /\ google,
                << Uses("android.permission.ACCESS_FINE_LOCATION") >>)
        \o When(HasFlag(f, 16) /\ google, << Uses("android.permission.BILLING") >>)
        \o When(HasFlag(f, 256), << Uses("android.permission.CAMERA") >>)
        \o When(Truthy(l.raw["play_app_id"]) \/ HasFlag(f, 128),
                << Uses("com.google.android.c2dm.permission.RECEIVE") >>)
        \o When(HasFlag(f, 128) /\ google,
                << Line("permission", "package.permission.C2D_MESSAGE"),
                   Uses("package.permission.C2D_MESSAGE") >>)
        \o When(HasFlag(f, 32) /\ google, << Uses("android.permission.CHECK_LICENSE") >>)
        \o When(HasFlag(f, 512), << Uses("android.permission.VIBRATE") >>)
        \o When(HasFlag(f, 1024), << Uses("android.permission.RECORD_AUDIO") >>)
        \o When(l.arcore_mode = 2, << Line("uses-feature", "android.hardware.camera.ar") >>)

\* Lines 600-644: the head of the new manifest, line by line. The permission
\* bits are those of the Permission flags (lines 83-94); "package" stands for
\* the package name in the two C2D_MESSAGE lines.
ManifestHeader(l) ==
    LET f == l.permission_flags
        google == l.app_type = APK_TYPE_GOOGLE
        When(cond, lines) == IF cond THEN lines ELSE <<>>
        Uses(nm) == Line("uses-permission", nm)
    IN  << Line("uses-feature", "glEsVersion"), Line("uses-sdk", "") >>
        \o When(HasFlag(f, 1), << Uses("android.permission.WRITE_EXTERNAL_STORAGE") >>)
        \o When(HasFlag(f, 2), << Uses("android.permission.INTERNET"),
                                 Uses("android.permission.ACCESS_NETWORK_STATE"),
                                 Uses("android.permission.ACCESS_WIFI_STATE") >>)
        \o When(HasFlag(f, 4), << Uses("android.permission.WAKE_LOCK") >>)
        \o When(GoogleOnly(l, 64),
                << Uses("android.permission.ACCESS_COARSE_LOCATION") >>)
        \o When(GoogleOnly(l, 8),
                << Uses("android.permission.ACCESS_FINE_LOCATION") >>)
        \o When(GoogleOnly(l, 16), << Uses("android.permission.BILLING") >>)
        \o When(HasFlag(f, 256), << Uses("android.permission.CAMERA") >>)
        \o When((Truthy(l.raw["play_app_id"]) \/ HasFlag(f, 128)) /\ google,
                << Uses("com.google.android.c2dm.permission.RECEIVE") >>)
        \o When(GoogleOnly(l, 128),
                << Line("permission", "package.permission.C2D_MESSAGE"),
                   Uses("package.permission.C2D_MESSAGE") >>)
        \o When(GoogleOnly(l, 32), << Uses("android.permission.CHECK_LICENSE") >>)
        \o When(HasFlag(f, 512), << Uses("android.permission.VIBRATE") >>)
        \o When(HasFlag(f, 1024), << Uses("android.permission.RECORD_AUDIO") >>)
        \o When(l.arcore_mode = 2, << Line("uses-feature", "android.hardware.camera.ar") >>)

\* a step inside the try block fails: on to the finally block
ApkFails(kind, step) ==
    /\ exc' = Raise(kind, step)
    /\ pc' = "apk_cleanup"

\* Lines 592-594: the old scratch folder is removed and the template copied.
ApkStage ==
    /\ pc = "apk_stage"
    /\ \E other_error \in BOOLEAN, copy \in {"ok", "no source", "partial"} :
        LET r == rmtree(build_tmp, other_error)
        IN  IF r.raised
            THEN /\ build_tmp' = r.exists
                 /\ ApkFails("OSError", "stage")
            ELSE /\ build_tmp' = (copy # "no source")
                 /\ IF copy = "ok"
                    THEN pc' = "apk_manifest" /\ UNCHANGED exc
                    ELSE ApkFails("OSError", "stage")
    /\ UNCHANGED <<projVars, argVars, main_agc, backup_agc, media, media_exclude,
                   media_exclude_dir, release_tree, mode, target, cursor,
                   call_kwargs, loc, release_paths>>

\* re.match(r'(.+)://([^/]+)(/.+)?', deep_link): the places where "://"
\* stands with something before it and something other than "/" after it
DeepLinkSplits(t) ==
    {i \in 2..(Len(t) - 3) :
        t[i] = ":" /\ t[i + 1] = "/" /\ t[i + 2] = "/" /\ t[i + 3] # "/"}

\* The groups of the match, the first group greedy: scheme, host, path;
\* None for the groups of no match and for a path that is not there.
DeepLinkGroups(t) ==
    IF DeepLinkSplits(t) = {} THEN [scheme |-> None, host |-> None, path |-> None]
    ELSE LET i == CHOOSE k \in DeepLinkSplits(t) : \A j \in DeepLinkSplits(t) : j <= k
             rest == SubSeq(t, i + 3, Len(t))
             slashes == {k \in 1..Len(rest) : rest[k] = "/"}
             cut == IF slashes = {} THEN Len(rest) + 1
                    ELSE CHOOSE k \in slashes : \A j \in slashes : k <= j
         IN  [scheme |-> SubSeq(t, 1, i - 1),
              host   |-> SubSeq(rest, 1, cut - 1),
              path   |-> IF cut + 1 <= Len(rest) THEN SubSeq(rest, cut, Len(rest))
                         ELSE None]

\* Lines 650-682: the text put in place of <!--ADDITIONAL_INTENT_FILTERS-->,
\* as the list of its intent filters. The filter of the deep link is opened
\* when the link has a scheme and closed whether it was opened or not; the
\* strings of lines 676 and 678 are no f-strings, so the attributes hold the
\* texts {host} and {path} themselves.
IntentFilters(l) ==
    (IF Truthy(l.raw["url_scheme"])
     THEN << [kind |-> "url_scheme", opened |-> TRUE, closed |-> TRUE,
              scheme |-> l.raw["url_scheme"], host |-> None, path |-> None] >>
     ELSE <<>>)
    \o (IF Truthy(l.raw["deep_link"])
        THEN LET g == DeepLinkGroups(l.raw["deep_link"])
             IN  << [kind |-> "deep_link", opened |-> Truthy(g.scheme), closed |-> TRUE,
                     scheme |-> g.scheme,
                     host |-> IF Truthy(g.host) THEN <<"{","h","o","s","t","}">> ELSE None,
                     path |-> IF Truthy(g.host) /\ Truthy(g.path) THEN <<"{","p","a","t","h","}">>
                              ELSE None] >>
        ELSE <<>>)

\* Lines 687-798: the blocks appended after the template's body, each under
\* the condition of its "if".
FeatureBlocks(l) ==
    LET f == l.permission_flags
        google == l.app_type = APK_TYPE_GOOGLE
        firebase == IncludeFirebase(l.raw, l.app_type)
        push == IncludePushNotify(f, l.app_type)
        play == IncludeGooglePlay(l.raw, l.app_type)
    IN  {b \in {"expansion_downloader", "google_sign_in", "billing_activity",
                "google_api_activity", "firebase_init_provider", "measurement",
                "instance_id_receiver", "push_messaging", "admob_provider", "arcore"} :
           CASE b = "expansion_downloader" -> HasFlag(f, 32) /\ google
             [] b = "google_sign_in" -> google
             [] b = "billing_activity" -> HasFlag(f, 16) /\ google
             [] b = "google_api_activity" -> play
             [] b = "firebase_init_provider" -> play \/ firebase \/ push
             [] b = "measurement" -> firebase
             [] b = "instance_id_receiver" -> firebase \/ push
             [] b = "push_messaging" -> push
             [] b = "admob_provider" -> IncludeAdmob(l.raw, l.app_type)
             [] b = "arcore" -> l.arcore_mode # 0}

\* the patterns lines 646-685 replace in the template of the manifest
ManifestTokens == {"screenOrientation", "ADDITIONAL_INTENT_FILTERS",
                   "YOUR_PACKAGE_NAME_HERE"}

\* the templates of the manifest an installation may have: all the patterns
\* are there, or one is not
ManifestTemplates == {ManifestTokens} \cup {ManifestTokens \ {t} : t \in ManifestTokens}

\* Lines 646-798: the body of the manifest made from a template that has the
\* patterns "template". re.sub replaces what it finds and says nothing when
\* it finds nothing.
ManifestBody(l, template) ==
    [written     |-> TRUE,
     unmatched   |-> ManifestTokens \ template,
     orientation |-> IF "screenOrientation" \in template
                     THEN ORIENTATION_NAMES(l.orientation) ELSE "as the template has it",
     filters     |-> IF "ADDITIONAL_INTENT_FILTERS" \in template
                     THEN IntentFilters(l) ELSE <<>>,
     package     |-> IF "YOUR_PACKAGE_NAME_HERE" \in template
                     THEN l.raw["package_name"] ELSE None,
     blocks      |-> FeatureBlocks(l)]

\* Lines 596-806: the manifest is written, its head first.
ApkManifest ==
    /\ pc = "apk_manifest"
    /\ \E template \in ManifestTemplates :
        loc' = [loc EXCEPT !.header = ManifestHeader(loc),
                           !.manifest = ManifestBody(loc, template)]
    /\ pc' = "apk_values"
    /\ UNCHANGED <<projVars, argVars, fsVars, mode, target, cursor, call_kwargs,
                   exc, release_paths>>

\* the entries lines 813-892 replace in values.xml
ValuesEntries == {"app_name", "games_app_id", "admob_app_id", "gcm_defaultSenderId",
                  "firebase_database_url", "google_app_id", "google_api_key",
                  "google_crash_reporting_api_key"}

\* the templates of values.xml an installation may have: all the entries are
\* there, or one is not
ValuesTemplates == {ValuesEntries} \cup {ValuesEntries \ {e} : e \in ValuesEntries}

\* a client of a Firebase config file
Client(package_name, mobilesdk_app_id, current_key) ==
    [package_name |-> package_name, mobilesdk_app_id |-> mobilesdk_app_id,
     current_key |-> current_key]

ClientMine  == Client(<<"c","o","m",".","e","x">>, <<"1",":","m","i","n","e">>, <<"k","e","y","-","m","i","n","e">>)
ClientOther == Client(<<"o","r","g",".","o","t","h","e","r">>, <<"1",":","o","t","h","e","r">>, <<"k","e","y","-","o","t","h","e","r">>)

\* The Firebase config files of the runs: one that cannot be read, and those with
\* or without the two fields of project_info and with one or two clients.
FirebaseConfigs ==
    {NoConfig}
    \cup {[readable |-> TRUE, fields |-> f, client |-> c] :
            f \in {{"project_number", "firebase_url"}, {"project_number"}, {"firebase_url"}},
            c \in {<<ClientMine>>, <<ClientOther>>, <<ClientOther, ClientMine>>,
                   <<ClientMine, ClientOther>>}}

\* Lines 813-892 on a values.xml that has the entries "template", with the
\* Firebase config "config": the first error in the order of the code, Ok
\* when there is none. Line 863 hands next() the list of the matching clients
\* itself, which is no iterator: whatever the list holds, the call raises
\* TypeError, and lines 865-892 are never reached.
ValuesErr(l, template, config) ==
    LET google == l.app_type = APK_TYPE_GOOGLE
        Entry(e) == IF e \in template THEN Ok ELSE Err("ValueError", e)
        Field(f) == IF f \in config.fields THEN Ok ELSE Err("KeyError", f)
        When(cond, e) == IF cond THEN e ELSE Ok
        firebase == IncludeFirebase(l.raw, l.app_type)
    IN  FirstErr(<< Entry("app_name"),
                    When(google /\ Truthy(l.raw["play_app_id"]), Entry("games_app_id")),
                    When(google /\ Truthy(l.raw["admob_app_id"]), Entry("admob_app_id")),
                    When(firebase /\ ~config.readable, Err("ValueError", "config")),
                    When(firebase, Field("project_number")),
                    When(firebase, Entry("gcm_defaultSenderId")),
                    When(firebase, Field("firebase_url")),
                    When(firebase, Entry("firebase_database_url")),
                    When(firebase, Err("TypeError", "client")) >>)

\* the entries the settings l have lines 813-892 replace
ExpectedEntries(l) ==
    LET google == l.app_type = APK_TYPE_GOOGLE
    IN  {"app_name"}
        \cup (IF google /\ Truthy(l.raw["play_app_id"]) THEN {"games_app_id"} ELSE {})
        \cup (IF google /\ Truthy(l.raw["admob_app_id"]) THEN {"admob_app_id"} ELSE {})
        \cup (IF IncludeFirebase(l.raw, l.app_type)
              THEN {"gcm_defaultSenderId", "firebase_database_url", "google_app_id",
                    "google_api_key", "google_crash_reporting_api_key"}
              ELSE {})

\* values.xml as lines 894-895 write it from a template that has the entries
\* "template": the texts put into its entries, None for an entry left as the
\* template has it, and the entries that were to be replaced and were not
\* there.
ValuesWritten(l, template) ==
    LET google == l.app_type = APK_TYPE_GOOGLE
    IN  [written       |-> TRUE,
         unmatched     |-> ExpectedEntries(l) \ template,
         app_name      |-> l.raw["app_name"],
         games_app_id  |-> IF google /\ Truthy(l.raw["play_app_id"])
                           THEN l.raw["play_app_id"] ELSE None,
         admob_app_id  |-> IF google /\ Truthy(l.raw["admob_app_id"])
                           THEN l.raw["admob_app_id"] ELSE None,
         google_app_id |-> None,
         google_api_key |-> None]

\* Lines 808-895: values.xml is read, its entries replaced and written back.
\* loc.config is the Firebase config the step read, if it read one.
ApkValues ==
    /\ pc = "apk_values"
    /\ \E template \in ValuesTemplates,
          config \in IF IncludeFirebase(loc.raw, loc.app_type)
                     THEN FirebaseConfigs ELSE {NoConfig} :
        LET e == ValuesErr(loc, template, config)
        IN  IF e # Ok
            THEN /\ exc' = RaiseAbout(e.kind, "values", e.what)
                 /\ pc' = "apk_cleanup"
                 /\ loc' = [loc EXCEPT !.config = config]
            ELSE /\ loc' = [loc EXCEPT !.values = ValuesWritten(loc, template),
                                    !.config = config]
                 /\ pc' = "apk_package"
                 /\ UNCHANGED exc
    /\ UNCHANGED <<projVars, argVars, fsVars, mode, target, cursor, call_kwargs,
                   release_paths>>

\* Aapt2 (lines 898-931): the lines the packaging tool writes to stderr, as
\* run() tells them apart: the two status words, a blank line and other text.
StderrLine == {<<"E","r","r","o","r">>, <<"D","o","n","e">>, <<>>, <<"W",":"," ","x">>}

MaxStderr == 4

\* stderr.strip().split('\n') (line 926): the whole is stripped, so the first
\* and the last line are not blank, and a blank stderr is one empty line.
StderrLines ==
    {<< <<>> >>} \cup
    {ls \in UNION {[1..n -> StderrLine] : n \in 1..MaxStderr} :
        ls[1] # <<>> /\ ls[Len(ls)] # <<>>}

\* line 927: '\n'.join([e for e in stderr_lines if e not in ['Error', 'Done']])
NotStatus(e) == e \notin {<<"E","r","r","o","r">>, <<"D","o","n","e">>}
ErrorText(stderr_lines) == Join(SelectSeq(stderr_lines, NotStatus), <<"\n">>)

\* run() with the unspecified error raised for an Error line alone
Aapt2Run_ErrorOnly(lines, stderr_lines) ==
    IF lines = <<>> THEN [kind |-> "ValueError", what |-> "no commands"]
    ELSE IF \E i \in 1..Len(stderr_lines) : stderr_lines[i] = <<"E","r","r","o","r">>
    THEN [kind |-> "SystemError", what |-> "unspecified"]
    ELSE IF ErrorText(stderr_lines) # <<>>
    THEN [kind |-> "SystemError", what |-> "reported"]
    ELSE [kind |-> "none", what |-> "none"]

\* Aapt2.run() (lines 917-931) for the batch "lines" and a tool that answers
\* with stderr_lines: what it raises, "none" for a return.
Aapt2Run(lines, stderr_lines) ==
    IF lines = <<>> THEN [kind |-> "ValueError", what |-> "no commands"]
    ELSE IF ErrorText(stderr_lines) # <<>>
    THEN [kind |-> "SystemError", what |-> "reported"]
    ELSE IF \E i \in 1..Len(stderr_lines) : stderr_lines[i] = <<"E","r","r","o","r">>
    THEN [kind |-> "SystemError", what |-> "unspecified"]
    ELSE [kind |-> "none", what |-> "none"]

\* what the tool answers an export with: one line of each kind
ToolStderrs == {ls \in StderrLines : Len(ls) = 1}

\* Lines 933-1019: the batch for aapt2 is written inside "with Aapt2(...)";
\* Aapt2.__exit__ (lines 907-910) runs the tool however the block was left,
\* and an error of the run replaces the one of the block.
ApkPackage ==
    /\ pc = "apk_package"
    /\ \E stderr_lines \in ToolStderrs, written \in BOOLEAN :
        LET ran  == Aapt2Run(<<"compile values.xml">>, stderr_lines)
            tool == IF ran.kind # "none" THEN "error"
                    ELSE IF written THEN "ok" ELSE "not written"
            block_error == /\ loc.app_type = APK_TYPE_OUYA
                           /\ loc.raw["ouya_icon_path"] \notin OuyaSized
        IN  /\ release_tree' =
                   IF tool = "ok" /\ ~block_error
                   THEN release_tree \cup {ReleaseFile(loc.output_folder, "apk")}
                   ELSE release_tree
            /\ IF tool = "error" THEN ApkFails("SystemError", "package")
               ELSE IF block_error
               THEN exc' = RaiseAbout("ValueError", "package", "ouya_icon")
                    /\ pc' = "apk_cleanup"
               ELSE pc' = "apk_assemble" /\ UNCHANGED exc
            /\ loc' = [loc EXCEPT !.tool_input =
                                    IF block_error THEN "partial" ELSE "complete"]
    /\ UNCHANGED <<projVars, argVars, main_agc, backup_agc, media, media_exclude,
                   media_exclude_dir, build_tmp, mode, target, cursor,
                   call_kwargs, release_paths>>

\* Lines 1024-1063: the package is renamed to .zip and the code, libraries
\* and media are added to it.
ApkAssemble ==
    /\ pc = "apk_assemble"
    /\ IF ReleaseFile(loc.output_folder, "apk") \notin release_tree
       THEN ApkFails("SystemError", "assemble") /\ UNCHANGED release_tree
       ELSE \E zipped \in BOOLEAN :
            /\ release_tree' = (release_tree \ {ReleaseFile(loc.output_folder, "apk")})
                               \cup {ReleaseFile(loc.output_folder, "zip")}
            /\ IF zipped THEN pc' = "apk_sign" /\ UNCHANGED exc
               ELSE ApkFails("OSError", "assemble")
    /\ UNCHANGED <<projVars, argVars, main_agc, backup_agc, media, media_exclude,
                   media_exclude_dir, build_tmp, mode, target, cursor,
                   call_kwargs, loc, release_paths>>

\* Lines 1065-1078: jarsigner; anything on its stdout is an error.
ApkSign ==
    /\ pc = "apk_sign"
    /\ \E errors \in BOOLEAN :
        IF errors THEN ApkFails("SystemError", "sign")
        ELSE pc' = "apk_align" /\ UNCHANGED exc
    /\ UNCHANGED <<projVars, argVars, fsVars, mode, target, cursor, call_kwargs,
                   loc, release_paths>>

\* Lines 1080-1088: zipalign writes the output file; anything on its stdout
\* is an error.
ApkAlign ==
    /\ pc = "apk_align"
    /\ \E error \in BOOLEAN :
        IF error THEN ApkFails("SystemError", "align") /\ UNCHANGED release_tree
        ELSE /\ release_tree' = release_tree \cup {ReleaseFile(loc.output_folder, "apk")}
             /\ pc' = "apk_cleanup"
             /\ UNCHANGED exc
    /\ UNCHANGED <<projVars, argVars, main_agc, backup_agc, media, media_exclude,
                   media_exclude_dir, build_tmp, mode, target, cursor,
                   call_kwargs, loc, release_paths>>

\* The bug the mutant stands for: the scratch folder is removed after the
\* try block instead of in its finally, so only when nothing was raised.
ApkCleanup_NoFinally ==
    /\ pc = "apk_cleanup"
    /\ \E remove_error \in BOOLEAN, other_error \in BOOLEAN :
        LET zip == ReleaseFile(loc.output_folder, "zip")
            r == rmtree(build_tmp, other_error)
        IN  IF exc # NoExc
            THEN pc' = "export_end" /\ UNCHANGED <<exc, build_tmp, release_tree>>
            ELSE IF zip \in release_tree /\ remove_error
            THEN /\ exc' = Raise("OSError", "cleanup")
                 /\ pc' = "export_end"
                 /\ UNCHANGED <<build_tmp, release_tree>>
            ELSE /\ release_tree' = release_tree \ {zip}
                 /\ build_tmp' = r.exists
                 /\ exc' = IF r.raised THEN Raise("OSError", "cleanup") ELSE exc
                 /\ pc' = "export_end"
    /\ UNCHANGED <<projVars, argVars, main_agc, backup_agc, media, media_exclude,
                   media_exclude_dir, mode, target, cursor, call_kwargs, loc,
                   release_paths>>

\* Lines 1089-1093: finally the .zip is removed if it is there, then the
\* scratch folder; then the return, or the exception in flight. An exception
\* of the finally block replaces it.
ApkCleanup ==
    /\ pc = "apk_cleanup"
    /\ \E remove_error \in BOOLEAN, other_error \in BOOLEAN :
        LET zip == ReleaseFile(loc.output_folder, "zip")
            r == rmtree(build_tmp, other_error)
        IN  IF zip \in release_tree /\ remove_error
            THEN /\ exc' = Raise("OSError", "cleanup")
                 /\ pc' = "export_end"
                 /\ UNCHANGED <<build_tmp, release_tree>>
            ELSE /\ release_tree' = release_tree \ {zip}
                 /\ build_tmp' = r.exists
                 /\ exc' = IF r.raised THEN Raise("OSError", "cleanup") ELSE exc
                 /\ pc' = "export_end"
    /\ UNCHANGED <<projVars, argVars, main_agc, backup_agc, media, media_exclude,
                   media_exclude_dir, mode, target, cursor, call_kwargs, loc,
                   release_paths>>

----------------------------------------------------------------------------
(* AgkBuild.__init__ *)

\* The Platform members in the order __init__ exports them (lines 1405-1427).
ExportOrder == <<"WINDOWS_86", "WINDOWS_64", "WINDOWS_86_64",
                 "LINUX_86", "LINUX_64", "LINUX_86_64",
                 "HTML5", "GOOGLE_APK", "AMAZON_APK", "OUYA_APK">>

Platform == {ExportOrder[i] : i \in 1..Len(ExportOrder)}

WindowsPlatforms == {"WINDOWS_86", "WINDOWS_64", "WINDOWS_86_64"}
LinuxPlatforms == {"LINUX_86", "LINUX_64", "LINUX_86_64"}
ApkPlatforms == {"GOOGLE_APK", "AMAZON_APK", "OUYA_APK"}

\* _Architecture.from_platform
from_platform(p) ==
    CASE p \in {"WINDOWS_86", "LINUX_86"} -> 1
      [] p \in {"WINDOWS_64", "LINUX_64"} -> 2
      [] p \in {"WINDOWS_86_64", "LINUX_86_64"} -> 3

\* release_paths has no key for the platform (line 1338: it starts empty)
NoPath == [dir |-> <<>>, file |-> "none"]

\* the places of the export list still to come that are asked for
Pending == {i \in (cursor + 1)..Len(ExportOrder) : ExportOrder[i] \in platforms}

\* the next "if platforms & p" that is true
NextIndex == CHOOSE i \in Pending : \A j \in Pending : i <= j

\* the text of an include_files destination
D_extras == <<"e","x","t","r","a","s">>
D_up     == <<".",".","/","u","p">>
D_abs    == <<"/","a","b","s">>

\* copy_include_files (lines 1387-1400) raises for a destination that is
\* absolute or holds '..'
CopyIncludeFails ==
    \E i \in 1..Len(include_files) :
        \/ StartsWith(include_files[i], <<"/">>)
        \/ \E k \in 1..(Len(include_files[i]) - 1) :
              include_files[i][k] = "." /\ include_files[i][k + 1] = "."

\* Lines 1344-1346: main.agc is renamed to main.agc.backup.
BuildRename ==
    /\ mode = "build" /\ pc = "construct"
    /\ backup_agc' = main_agc
    /\ main_agc' = Absent
    /\ pc' = "rewrite"
    /\ UNCHANGED <<projVars, argVars, media, media_exclude, media_exclude_dir,
                   build_tmp, release_tree, mode, exc, target, cursor,
                   call_kwargs, loc, release_paths>>

\* Lines 1348-1368: main.agc is written anew from the backup, line by line;
\* an include tag without a value in include_tags raises part of the way.
BuildRewriteMain ==
    /\ pc = "rewrite"
    /\ \E tagged \in BOOLEAN, include_tags \in {"none", "has the tag", "lacks the tag"} :
        IF tagged /\ include_tags # "has the tag"
        THEN /\ main_agc' = "rewritten in part"
             /\ exc' = Raise("ValueError", "include_tags")
             /\ pc' = "finally"
        ELSE /\ main_agc' = "rewritten"
             /\ pc' = "exclude"
             /\ UNCHANGED exc
    /\ UNCHANGED <<projVars, argVars, backup_agc, media, media_exclude,
                   media_exclude_dir, build_tmp, release_tree, mode, target,
                   cursor, call_kwargs, loc, release_paths>>

\* Lines 1374-1378: each entry of exclude_media is moved into media_exclude;
\* the first rename that fails ends the loop.
RECURSIVE StageExcluded(_, _, _)
StageExcluded(m, x, entries) ==
    IF entries = <<>> THEN [media |-> m, excluded |-> x, raised |-> FALSE]
    ELSE LET p == Head(entries)
             x1 == MakeParentDirs(x, p)
         IN  IF RenameFails(m, x1, p)
             THEN [media |-> m, excluded |-> x1, raised |-> TRUE]
             ELSE StageExcluded(RenameFrom(m, p), RenameTo(m, x1, p), Tail(entries))

\* the names AgkBuild is given for project_name and release_name
BuildProjectNames == {None}
BuildReleaseNames == {None, S_beta}

\* Lines 1370-1384: the excluded media are put aside, then the project takes
\* the name and release name given.
BuildExclude ==
    /\ pc = "exclude"
    /\ IF exclude_media # <<>> /\ media_exclude_dir
       THEN \* os.makedirs(media_exclude_path, exist_ok=False)
            /\ exc' = Raise("OSError", "exclude")
            /\ pc' = "finally"
            /\ UNCHANGED <<media, media_exclude, media_exclude_dir, name, release_name>>
       ELSE LET r == StageExcluded(media, media_exclude, exclude_media)
            IN  /\ media' = r.media
                /\ media_exclude' = r.excluded
                /\ media_exclude_dir' = (exclude_media # <<>>)
                /\ IF r.raised
                   THEN /\ exc' = Raise("OSError", "exclude")
                        /\ pc' = "finally"
                        /\ UNCHANGED <<name, release_name>>
                   ELSE \E project_name \in BuildProjectNames,
                           given_release_name \in BuildReleaseNames :
                        /\ name' = IF Truthy(project_name) THEN project_name ELSE name
                        /\ release_name' = IF Truthy(given_release_name)
                                           THEN given_release_name ELSE release_name
                        /\ pc' = "compile"
                        /\ UNCHANGED exc
    /\ UNCHANGED <<version, call, argVars, main_agc, backup_agc, build_tmp,
                   release_tree, mode, target, cursor, call_kwargs, loc,
                   release_paths>>

\* the compilation with its error put aside and the exports gone on to
BuildCompile_GoesOn ==
    /\ pc = "compile"
    /\ \E found \in BOOLEAN, stdout_empty \in BOOLEAN, returncode \in {0, 1} :
        IF found /\ stdout_empty /\ returncode = 0
        THEN pc' = "export" /\ UNCHANGED exc
        ELSE exc' = Raise("SystemError", "compile") /\ pc' = "export"
    /\ UNCHANGED <<projVars, argVars, fsVars, mode, target, cursor, call_kwargs,
                   loc, release_paths>>

\* Lines 1403-1404: AgkCompiler() and compile(). The compiler reports its
\* errors on stdout or by its return code (lines 385-399).
BuildCompile ==
    /\ pc = "compile"
    /\ \E found \in BOOLEAN, stdout_empty \in BOOLEAN, returncode \in {0, 1} :
        IF found /\ stdout_empty /\ returncode = 0
        THEN pc' = "export" /\ UNCHANGED exc
        ELSE exc' = Raise("SystemError", "compile") /\ pc' = "finally"
    /\ UNCHANGED <<projVars, argVars, fsVars, mode, target, cursor, call_kwargs,
                   loc, release_paths>>

\* the local variables of no export
NoLoc == [none |-> TRUE]

\* copy_include_files(output_folder) (lines 1387-1400) as the next statement
\* after an export that made release folder "folder": it raises for a bad
\* destination, else the destinations are made below the folder.
AfterCopyIncludeFiles(p, folder) ==
    IF CopyIncludeFails
    THEN /\ exc' = RaiseAbout("ValueError", "include_files", "include_files")
         /\ pc' = "finally"
         /\ UNCHANGED release_paths
    ELSE /\ release_paths' = [release_paths EXCEPT ![p] = ReleaseDir(folder)]
         /\ pc' = "export"
         /\ UNCHANGED exc

\* export_windows / export_linux (lines 1218-1282) called for the next
\* platform asked for, then copy_include_files and release_paths[p].
ExportDesktop(platform_name) ==
    LET p == ExportOrder[NextIndex]
        folder == get_release_folder(platform_name, from_platform(p))
    IN  /\ cursor' = NextIndex
        /\ \E other_error \in BOOLEAN, copied \in BOOLEAN :
            IF other_error /\ ReleaseDir(folder) \in release_tree
            THEN \* _rmtree(output_folder) raises
                 /\ exc' = Raise("OSError", "export")
                 /\ pc' = "finally"
                 /\ UNCHANGED <<release_tree, release_paths>>
            ELSE /\ release_tree' = release_tree \cup {ReleaseDir(folder)}
                 /\ IF ~copied
                    THEN /\ exc' = Raise("OSError", "export")
                         /\ pc' = "finally"
                         /\ UNCHANGED release_paths
                    ELSE AfterCopyIncludeFiles(p, folder)
        /\ UNCHANGED <<projVars, argVars, main_agc, backup_agc, media,
                       media_exclude, media_exclude_dir, build_tmp, mode,
                       target, call_kwargs, loc>>

\* Lines 1405-1409
BuildExportWindows ==
    /\ pc = "export" /\ Pending # {}
    /\ ExportOrder[NextIndex] \in WindowsPlatforms
    /\ ExportDesktop(S_windows)

\* Lines 1410-1414
BuildExportLinux ==
    /\ pc = "export" /\ Pending # {}
    /\ ExportOrder[NextIndex] \in LinuxPlatforms
    /\ ExportDesktop(S_linux)

\* Line 1416: compiler.export_html5(project), no keyword argument given on.
BuildCallHtml5 ==
    /\ pc = "export" /\ Pending # {}
    /\ ExportOrder[NextIndex] = "HTML5"
    /\ cursor' = NextIndex
    /\ target' = "HTML5"
    /\ call_kwargs' = NoKwargs
    /\ pc' = "html5_resolve"
    /\ UNCHANGED <<projVars, argVars, fsVars, mode, exc, loc, release_paths>>

\* Lines 1420, 1423, 1426: compiler.export_apk(project, app_type=..., **kwargs)
BuildCallApk ==
    /\ pc = "export" /\ Pending # {}
    /\ ExportOrder[NextIndex] \in ApkPlatforms
    /\ cursor' = NextIndex
    /\ target' = ExportOrder[NextIndex]
    /\ call_kwargs' = kwargs
    /\ pc' = "apk_resolve"
    /\ UNCHANGED <<projVars, argVars, fsVars, mode, exc, loc, release_paths>>

\* The export called has returned or raised: lines 1417-1418 after
\* export_html5, lines 1421, 1424, 1427 after export_apk.
BuildAfterExport ==
    /\ mode = "build" /\ pc = "export_end"
    /\ loc' = NoLoc
    /\ IF exc # NoExc
       THEN pc' = "finally" /\ UNCHANGED <<exc, release_paths>>
       ELSE IF target = "HTML5"
       THEN AfterCopyIncludeFiles(target, loc.output_folder)
       ELSE /\ release_paths' = [release_paths EXCEPT
                                   ![target] = ReleaseFile(loc.output_folder, "apk")]
            /\ pc' = "export"
            /\ UNCHANGED exc
    /\ UNCHANGED <<projVars, argVars, fsVars, mode, target, cursor, call_kwargs>>

\* the try block runs off its end
BuildExportsDone ==
    /\ pc = "export" /\ Pending = {}
    /\ pc' = "finally"
    /\ UNCHANGED <<projVars, argVars, fsVars, mode, exc, target, cursor,
                   call_kwargs, loc, release_paths>>

\* the files os.walk(media_exclude) comes to, in its top-down order
WalkFiles == <<P_a, P_b>>

\* Lines 1431-1439: the walk of media_exclude. The makedirs of line 1434 is
\* given a path inside media_exclude, a folder the walk has just listed, so
\* it makes nothing; each file is renamed to the same relative path of media,
\* and the first rename that fails ends the walk.
RECURSIVE RestoreExcluded(_, _, _)
RestoreExcluded(m, x, files) ==
    IF files = <<>> THEN [media |-> m, excluded |-> x, raised |-> FALSE]
    ELSE LET p == Head(files)
         IN  IF x[p] \in {Absent, Dir} THEN RestoreExcluded(m, x, Tail(files))
             ELSE IF Parent(p) # <<>> /\ m[Parent(p)] # Dir
             THEN [media |-> m, excluded |-> x, raised |-> TRUE]
             ELSE RestoreExcluded([m EXCEPT ![p] = x[p]], [x EXCEPT ![p] = Absent],
                                  Tail(files))

\* The bug the mutant stands for: the restore is written after the try block
\* instead of in its finally, so it runs only when nothing was raised.
BuildFinally_OnSuccess ==
    /\ pc = "finally"
    /\ pc' = "done"
    /\ IF exc # NoExc
       THEN UNCHANGED <<fsVars, exc>>
       ELSE /\ main_agc' = backup_agc
            /\ backup_agc' = Absent
            /\ media' = RestoreExcluded(media, media_exclude, WalkFiles).media
            /\ media_exclude' = EmptyTree
            /\ media_exclude_dir' = FALSE
            /\ UNCHANGED <<build_tmp, release_tree, exc>>
    /\ UNCHANGED <<projVars, argVars, mode, target, cursor, call_kwargs, loc,
                   release_paths>>

\* Lines 1428-1440: finally main.agc.backup is put back over main.agc, the
\* files of media_exclude are moved back and media_exclude is removed. An
\* exception of the finally block replaces the one in flight.
BuildFinally ==
    /\ pc = "finally"
    /\ pc' = "done"
    /\ main_agc' = backup_agc
    /\ backup_agc' = Absent
    /\ LET r == RestoreExcluded(media, media_exclude, WalkFiles)
       IN  /\ media' = r.media
           /\ IF r.raised
              THEN /\ media_exclude' = r.excluded
                   /\ exc' = Raise("FileNotFoundError", "restore")
                   /\ UNCHANGED media_exclude_dir
              ELSE \E other_error \in BOOLEAN :
                   LET d == rmtree(media_exclude_dir, other_error)
                   IN  /\ media_exclude_dir' = d.exists
                       /\ media_exclude' = IF d.raised THEN r.excluded ELSE EmptyTree
                       /\ exc' = IF d.raised THEN Raise("OSError", "remove_exclude")
                                 ELSE exc
    /\ UNCHANGED <<projVars, argVars, build_tmp, release_tree, mode, target,
                   cursor, call_kwargs, loc, release_paths>>


----------------------------------------------------------------------------
(* AgkBuild.archive (lines 1789-1814) *)

\* f"{release_path}.zip": the file beside the release folder
zip_path(release_path) == ReleaseFile(release_path.dir, "zip")

\* the turn of the loop with the release folder left where it is
ArchiveOne_KeepFolder(p, paths, tree) ==
    [paths |-> [paths EXCEPT ![p] = zip_path(paths[p])],
     tree  |-> tree \cup {zip_path(paths[p])}]

\* Lines 1803-1814, one turn of the loop for a platform that is not an APK:
\* the zip is written, the release folder removed and the path replaced.
ArchiveOne(p, paths, tree) ==
    [paths |-> [paths EXCEPT ![p] = zip_path(paths[p])],
     tree  |-> (tree \ {paths[p]}) \cup {zip_path(paths[p])}]

\* "for p in Platform: if platforms & p" from place i of the definition order
\* on; "failing" is the platform whose zip cannot be written, if any. A
\* platform that was not exported has no key in release_paths (line 1338
\* starts it empty), and line 1803 raises KeyError for it.
RECURSIVE ArchiveFrom(_, _, _, _, _)
ArchiveFrom(i, request, failing, paths, tree) ==
    IF i > Len(ExportOrder) THEN [paths |-> paths, tree |-> tree, raised |-> "none"]
    ELSE LET p == ExportOrder[i]
         IN  IF p \notin request THEN ArchiveFrom(i + 1, request, failing, paths, tree)
             ELSE IF p \in ApkPlatforms
             THEN [paths |-> paths, tree |-> tree, raised |-> "ValueError"]
             ELSE IF paths[p] = NoPath
             THEN [paths |-> paths, tree |-> tree, raised |-> "KeyError"]
             ELSE IF p = failing
             THEN [paths |-> paths, tree |-> tree, raised |-> "OSError"]
             ELSE LET r == ArchiveOne(p, paths, tree)
                  IN  ArchiveFrom(i + 1, request, failing, r.paths, r.tree)

\* the platforms a script asks archive for
ArchiveRequests ==
    {{p} : p \in Platform}
    \cup {{"WINDOWS_86", "LINUX_64"}, {"WINDOWS_86_64", "HTML5"},
          {"HTML5", "GOOGLE_APK"}, {"WINDOWS_86", "HTML5", "OUYA_APK"}}

\* build.archive(platforms) on the AgkBuild that a construction without an
\* exception has returned.
BuildArchive ==
    /\ mode = "build" /\ pc = "done" /\ exc = NoExc
    /\ \E request \in ArchiveRequests :
      \E failing \in {"none"} \cup (request \ ApkPlatforms) :
        LET r == ArchiveFrom(1, request, failing, release_paths, release_tree)
        IN  /\ release_paths' = r.paths
            /\ release_tree' = r.tree
            /\ exc' = IF r.raised = "none" THEN exc ELSE Raise(r.raised, "archive")
            /\ loc' = [archive |-> request]
    /\ pc' = "archived"
    /\ UNCHANGED <<projVars, argVars, main_agc, backup_agc, media, media_exclude,
                   media_exclude_dir, build_tmp, mode, target, cursor, call_kwargs>>

----------------------------------------------------------------------------
(* The projects, arguments and environments the model runs on *)

\* the longest exclude_media list
MaxExclude == 2

\* the project file of the runs: every setting stored, every check passed
DefaultIni ==
    [section \in {"apk_settings", "html5_settings"} |->
        IF section = "html5_settings"
        THEN [n \in Html5Names |-> <<"0">>]
        ELSE [n \in ApkNames |->
                CASE n = "app_name" -> <<"D","e","m","o">>
                  [] n = "package_name" -> <<"c","o","m",".","e","x">>
                  [] n = "ouya_icon_path" -> F_ouya
                  [] n = "orientation" -> <<"2">>
                  [] n = "arcore" -> <<"0">>
                  [] n = "sdk_version" -> <<"1">>
                  [] n = "permission_flags" -> <<"0">>
                  [] n = "version_name" -> <<"1",".","0">>
                  [] n = "version_number" -> <<"1">>
                  [] OTHER -> <<>>]]

\* what a project file may store instead: (setting, text), None for a key
\* the file does not have
ApkAlternates ==
    { <<"app_name", <<>>>>, <<"app_name", None>>, <<"app_name", <<"a","!">>>>,
      <<"package_name", <<"c","o","m">>>>, <<"package_name", None>>,
      <<"app_icon_path", F_icon>>, <<"app_icon_path", F_jpg>>,
      <<"app_icon_path", F_missing>>,
      <<"ouya_icon_path", F_icon>>, <<"ouya_icon_path", <<>>>>,
      <<"firebase_config_path", F_firebase>>, <<"firebase_config_path", F_text>>,
      <<"orientation", <<"0">>>>, <<"orientation", <<"5">>>>, <<"orientation", None>>,
      <<"orientation", <<"-","1">>>>, <<"orientation", <<"-","2">>>>,
      <<"arcore", <<"2">>>>, <<"arcore", <<"3">>>>,
      <<"sdk_version", <<"0">>>>, <<"sdk_version", <<"1","3">>>>,
      <<"url_scheme", <<"a",":","b">>>>, <<"url_scheme", <<"a","p","p">>>>,
      <<"deep_link", <<"h","t","t","p",":","/","/","a">>>>,
      <<"deep_link", <<"a",".","b">>>>, <<"deep_link", <<"h","t","t","p","s",":","/","/">>>>, <<"deep_link", <<"h","t","t","p","s",":","/","/","a","/","b">>>>, <<"deep_link", <<"h","t","t","p","s",":","/","/","a">>>>,
      <<"play_app_id", <<"1","2","3">>>>, <<"admob_app_id", <<"c","a">>>>,
      <<"permission_flags", <<"1">>>>, <<"permission_flags", <<"2">>>>,
      <<"permission_flags", <<"1","2","8">>>>, <<"permission_flags", <<"2","0","4","7">>>>,
      <<"permission_flags", <<"x">>>>,
      <<"keystore_path", F_keystore>>, <<"keystore_path", F_missing>>,
      <<"version_name", <<"1",".","a">>>>, <<"version_number", <<"x">>>>,
      <<"alias", <<"m","e">>>> }

Html5Alternates ==
    { <<"commands_used", <<"1">>>>, <<"commands_used", <<"2">>>>,
      <<"commands_used", None>>, <<"commands_used", <<"x">>>>,
      <<"dynamic_memory", <<>>>>, <<"dynamic_memory", None>> }

\* the override a script may give: (key, value)
ApkOverrides ==
    { <<"app_name", <<"O","v","e","r">>>>, <<"app_name", <<>>>>,
      <<"package_name", <<"o","r","g",".","o","v">>>>,
      <<"orientation", <<"6">>>>, <<"orientation", <<"0">>>>, <<"orientation", <<"3">>>>,
      <<"sdk_version", <<"4",".","4">>>>, <<"sdk_version", <<"9",".","9">>>>, <<"sdk_version", <<>>>>,
      <<"play_app_id", <<"1","2","3">>>>, <<"play_app_id", <<>>>>,
      <<"permission_flags", <<"4">>>>, <<"permission_flags", <<"0">>>>,
      <<"permission_flags", <<"1","2","8">>>>,
      <<"keystore_path", F_keystore>>,
      <<"keystore_password", <<"p","w">>>>, <<"alias_password", <<"p","w">>>>,
      <<"version_name", <<"2",".","0">>>> }

Html5Overrides ==
    { <<"commands_used", <<"1">>>>, <<"commands_used", <<"0">>>>,
      <<"commands_used", <<"2">>>>, <<"dynamic_memory", <<>>>>,
      <<"dynamic_memory", <<"1">>>> }

\* the section the settings of a platform are stored in, and its prefix
SectionOf(p) == IF p = "HTML5" THEN "html5_settings" ELSE "apk_settings"
PrefixOf(p) == IF p = "HTML5" THEN "html5" ELSE "apk"

\* the project files that differ from DefaultIni in at most one setting of
\* the platform's section
IniVariants(p) ==
    {DefaultIni}
    \cup {[DefaultIni EXCEPT ![SectionOf(p)][a[1]] = a[2]] :
            a \in IF p = "HTML5" THEN Html5Alternates ELSE ApkAlternates}

\* the keyword arguments with at most one override, of the platform's prefix
KwargVariants(p) ==
    {NoKwargs}
    \cup {[NoKwargs EXCEPT ![<<PrefixOf(p), o[1]>>] = o[2]] :
            o \in IF p = "HTML5" THEN Html5Overrides ELSE ApkOverrides}

\* the keyword arguments AgkBuild is given in the runs
BuildKwargs ==
    {NoKwargs,
     [NoKwargs EXCEPT ![<<"html5", "commands_used">>] = <<"1">>,
                      ![<<"apk", "app_name">>] = <<"O","v","e","r">>]}

\* the project files AgkBuild is given in the runs
BuildInis == {DefaultIni, [DefaultIni EXCEPT !["apk_settings"]["app_name"] = <<>>]}

\* the platforms argument: a non-empty set of Platform flags (line 1333)
BuildPlatforms ==
    {{p} : p \in Platform}
    \cup {{"WINDOWS_86", "LINUX_64"}, {"WINDOWS_86_64", "HTML5"},
          {"HTML5", "GOOGLE_APK"}, {"AMAZON_APK", "OUYA_APK"}}

\* the exclude_media argument: None or a list of paths below media/
RECURSIVE ListsUpTo(_)
ListsUpTo(n) ==
    IF n = 0 THEN {<<>>}
    ELSE ListsUpTo(n - 1)
         \cup {Append(l, q) : l \in {k \in ListsUpTo(n - 1) : Len(k) = n - 1},
                              q \in MediaPaths}

\* the include_files argument: the destinations of its items
BuildIncludeFiles == {<<>>, <<D_extras>>, <<D_extras, D_up>>, <<D_abs>>}

NoReleasePaths == [p \in Platform |-> NoPath]

\* the files of a project nobody is building
InitFiles ==
    /\ main_agc = "original"
    /\ backup_agc = Absent
    /\ media = OriginalMedia
    /\ media_exclude = EmptyTree
    /\ release_tree = {}

\* The namer alone: an AgkProject whose fields a script sets and reads.
InitNamer ==
    /\ InitProject
    /\ InitFiles
    /\ media_exclude_dir = FALSE /\ build_tmp = FALSE
    /\ ini = DefaultIni
    /\ platforms = {} /\ exclude_media = <<>> /\ include_files = <<>>
    /\ kwargs = NoKwargs /\ call_kwargs = NoKwargs
    /\ mode = "none" /\ pc = "idle" /\ exc = NoExc
    /\ target = "none" /\ cursor = 0 /\ loc = NoLoc
    /\ release_paths = NoReleasePaths

SpecNamer == InitNamer /\ [][NextNamer]_vars

\* AgkBuild(project_file, platforms, ...) right after AgkProject(project_file)
\* (line 1341), the arguments having passed lines 1333-1336. A folder
\* media_exclude may be left from before.
InitBuild ==
    /\ name = S_MyGame /\ version = S_1_2 /\ release_name = None /\ call = NoCall
    /\ InitFiles
    /\ media_exclude_dir \in BOOLEAN
    /\ build_tmp = FALSE
    /\ ini \in BuildInis
    /\ platforms \in BuildPlatforms
    /\ exclude_media \in ListsUpTo(MaxExclude)
    /\ include_files \in BuildIncludeFiles
    /\ kwargs \in BuildKwargs
    /\ call_kwargs = NoKwargs
    /\ mode = "build" /\ pc = "construct" /\ exc = NoExc
    /\ target = "none" /\ cursor = 0 /\ loc = NoLoc
    /\ release_paths = NoReleasePaths

\* the steps of export_html5
NextHtml5 ==
    \/ Html5Resolve
    \/ Html5Stage
    \/ Html5Synth
    \/ Html5Output
    \/ Html5Cleanup

\* the steps of export_apk
NextApk ==
    \/ ApkResolve
    \/ ApkChecks
    \/ ApkStage
    \/ ApkManifest
    \/ ApkValues
    \/ ApkPackage
    \/ ApkAssemble
    \/ ApkSign
    \/ ApkAlign
    \/ ApkCleanup

NextBuild ==
    \/ BuildRename
    \/ BuildRewriteMain
    \/ BuildExclude
    \/ BuildCompile
    \/ BuildExportWindows
    \/ BuildExportLinux
    \/ BuildCallHtml5
    \/ BuildCallApk
    \/ BuildAfterExport
    \/ BuildExportsDone
    \/ BuildFinally
    \/ BuildArchive
    \/ NextHtml5
    \/ NextApk

SpecBuild == InitBuild /\ [][NextBuild]_vars

\* A script calls export_html5 or export_apk of an AgkCompiler itself, with
\* its own keyword arguments. A folder build_tmp may be left from before.
InitExport ==
    /\ name = S_MyGame /\ version = S_1_2 /\ release_name = None /\ call = NoCall
    /\ InitFiles
    /\ media_exclude_dir = FALSE
    /\ build_tmp \in BOOLEAN
    /\ target \in {"HTML5"} \cup ApkPlatforms
    /\ ini \in IniVariants(target)
    /\ kwargs \in KwargVariants(target)
    /\ call_kwargs = kwargs
    /\ platforms = {} /\ exclude_media = <<>> /\ include_files = <<>>
    /\ mode = "direct"
    /\ pc = IF target = "HTML5" THEN "html5_resolve" ELSE "apk_resolve"
    /\ exc = NoExc /\ cursor = 0 /\ loc = NoLoc
    /\ release_paths = NoReleasePaths

NextExport ==
    \/ NextHtml5
    \/ NextApk

SpecExport == InitExport /\ [][NextExport]_vars


\* A part of the module run by itself: no project is built or exported, the
\* part's own locals are in loc.
InitPart ==
    /\ name = S_MyGame /\ version = S_1_2 /\ release_name = None /\ call = NoCall
    /\ InitFiles
    /\ media_exclude_dir = FALSE /\ build_tmp = FALSE
    /\ ini = DefaultIni
    /\ platforms = {} /\ exclude_media = <<>> /\ include_files = <<>>
    /\ kwargs = NoKwargs /\ call_kwargs = NoKwargs
    /\ mode = "none" /\ exc = NoExc
    /\ target = "none" /\ cursor = 0
    /\ release_paths = NoReleasePaths

PartUnchanged ==
    UNCHANGED <<projVars, argVars, fsVars, mode, target, cursor, call_kwargs,
                release_paths>>

MaxBatch == 2

\* "with Aapt2(...) as aapt2:" (lines 899-905): an empty batch
InitAapt2 ==
    /\ InitPart
    /\ pc = "aapt2_with"
    /\ loc = [lines |-> <<>>, stderr_lines |-> <<>>]

\* Aapt2.write(s) (lines 912-915)
Aapt2Write(s) ==
    /\ pc = "aapt2_with"
    /\ Len(loc.lines) < MaxBatch
    /\ loc' = [loc EXCEPT !.lines = Append(@, s)]
    /\ UNCHANGED <<pc, exc>>
    /\ PartUnchanged

\* Aapt2.__exit__ (lines 907-910): run() (lines 917-931) with a tool that
\* answers the batch with any stderr.
Aapt2Exit ==
    /\ pc = "aapt2_with"
    /\ \E stderr_lines \in StderrLines :
        LET ran == Aapt2Run(loc.lines, stderr_lines)
        IN  /\ loc' = IF loc.lines = <<>> THEN loc
                      ELSE [lines |-> <<>>, stderr_lines |-> stderr_lines]
            /\ exc' = IF ran.kind = "none" THEN NoExc
                      ELSE RaiseAbout(ran.kind, "aapt2", ran.what)
    /\ pc' = "aapt2_done"
    /\ PartUnchanged

NextAapt2 ==
    \/ \E s \in {"compile", "link"} : Aapt2Write(s)
    \/ Aapt2Exit

SpecAapt2 == InitAapt2 /\ [][NextAapt2]_vars


\* The media folders the data file is built from: up to MaxFiles of these
\* files in media/, and no folder, a folder snd, folders img and snd, or a
\* folder with the name of a loader variable.
MaxFiles == 2

BlobFiles == {File(<<"a",".","p","n","g">>, 3), File(<<"b",".","w","a","v">>, 5), File(<<".","o","g","g">>, 2),
              File(<<"c",".","O","G","G">>, 4), File(<<"d",".","m","p","3">>, 0), File(<<"T","h","u","m","b","s",".","d","b">>, 1)}

\* the sequences of up to n different members of S
RECURSIVE Arrangements(_, _)
Arrangements(S, n) ==
    IF n = 0 THEN {<<>>}
    ELSE LET shorter == Arrangements(S, n - 1)
         IN  shorter \cup
             {Append(p[1], p[2]) :
                 p \in {q \in shorter \X S :
                           /\ Len(q[1]) = n - 1
                           /\ \A i \in 1..Len(q[1]) : q[1][i] # q[2]}}

BlobFolders ==
    {<<>>, <<Folder(LOADPACKAGE, <<>>)>>}
    \cup {<<Folder(<<"s","n","d">>, g)>> : g \in Arrangements(BlobFiles, 1)}
    \cup {<<Folder(<<"i","m","g">>, <<>>), Folder(<<"s","n","d">>, g)>> : g \in Arrangements(BlobFiles, 1)}

BlobTrees == [files : Arrangements(BlobFiles, MaxFiles), dirs : BlobFolders]

\* Lines 1130-1137: AGKPlayer.data is opened and the two strings begun.
InitBlob ==
    /\ InitPart
    /\ pc = "blob_walk"
    /\ \E tree \in BlobTrees :
         loc = [tree |-> tree, dirnames |-> <<>>, filenames |-> <<>>,
                additional_folders |-> <<MediaDirective>>, files |-> <<>>,
                currpos |-> 0, written |-> 0, remote_package_size |-> -1,
                loader |-> NoLoader]

\* Lines 1149-1153: the walk of the media folder
Html5Walk ==
    /\ pc = "blob_walk"
    /\ loc' = [loc EXCEPT !.dirnames = walk_dirnames(loc.tree),
                          !.filenames = walk_filenames(loc.tree)]
    /\ pc' = "blob_dirs"
    /\ UNCHANGED exc
    /\ PartUnchanged

\* Lines 1155-1162: one turn of "for filepath in dirnames", or its end
Html5AddFolder ==
    /\ pc = "blob_dirs"
    /\ LET done == Len(loc.additional_folders) - 1
       IN  IF done < Len(loc.dirnames)
           THEN /\ loc' = [loc EXCEPT !.additional_folders =
                               Append(@, FolderDirective(loc.dirnames[done + 1]))]
                /\ UNCHANGED pc
           ELSE pc' = "blob_files" /\ UNCHANGED loc
    /\ UNCHANGED exc
    /\ PartUnchanged

\* Lines 1164-1176: one turn of "for filepath in filenames", or its end
Html5AddFile ==
    /\ pc = "blob_files"
    /\ LET done == Len(loc.files)
       IN  IF done < Len(loc.filenames)
           THEN LET f == loc.filenames[done + 1]
                IN  /\ loc' = [loc EXCEPT !.files = Append(@, FileEntry(f, loc.currpos)),
                                          !.written = @ + f.length,
                                          !.currpos = @ + f.length]
                    /\ UNCHANGED pc
           ELSE pc' = "blob_close" /\ UNCHANGED loc
    /\ UNCHANGED exc
    /\ PartUnchanged

\* Lines 1178-1182: the load package is closed with the size of the data
Html5ClosePackage ==
    /\ pc = "blob_close"
    /\ loc' = [loc EXCEPT !.remote_package_size = loc.currpos]
    /\ pc' = "blob_loader"
    /\ UNCHANGED exc
    /\ PartUnchanged

\* Lines 1185-1197: AGKPlayer.js is read, filled in and written
Html5FillLoader ==
    /\ pc = "blob_loader"
    /\ \E template \in LoaderTemplates :
        LET r == SubstituteLoader(template, loc.additional_folders)
        IN  /\ loc' = [loc EXCEPT !.loader = r]
            /\ exc' = IF r.raised THEN RaiseAbout("ValueError", "synth", r.what)
                      ELSE exc
    /\ pc' = "blob_done"
    /\ PartUnchanged

NextBlob ==
    \/ Html5Walk
    \/ Html5AddFolder
    \/ Html5AddFile
    \/ Html5ClosePackage
    \/ Html5FillLoader

SpecBlob == InitBlob /\ [][NextBlob]_vars


----------------------------------------------------------------------------
(* IniFile (lines 154-203) *)

\* str.strip() of a line of these files: the blanks at its ends go
RECURSIVE lstrip(_)
lstrip(t) == IF t # <<>> /\ Head(t) \in {" ", "\n"} THEN lstrip(Tail(t)) ELSE t

RECURSIVE rstrip(_)
rstrip(t) ==
    IF t # <<>> /\ t[Len(t)] \in {" ", "\n"} THEN rstrip(SubSeq(t, 1, Len(t) - 1)) ELSE t

strip(t) == rstrip(lstrip(t))

\* re.match(r'\[(.+)\]', line): the places a "]" can close the group at
HeaderEnds(line) ==
    IF line # <<>> /\ line[1] = "["
    THEN {j \in 3..Len(line) : line[j] = "]"}
    ELSE {}

\* match.group(1): .+ is greedy, the group ends at the last "]"
HeaderName(line) ==
    LET j == CHOOSE j \in HeaderEnds(line) : \A k \in HeaderEnds(line) : k <= j
    IN  SubSeq(line, 2, j - 1)

\* line.split('=', 2): the line is cut at its first two "="
EqualsAt(line) == {i \in 1..Len(line) : line[i] = "="}

split_equals_2(line) ==
    LET eqs == EqualsAt(line)
    IN  IF eqs = {} THEN <<line>>
        ELSE LET a == CHOOSE i \in eqs : \A k \in eqs : i <= k
                 rest == eqs \ {a}
             IN  IF rest = {} THEN <<SubSeq(line, 1, a - 1), SubSeq(line, a + 1, Len(line))>>
                 ELSE LET b == CHOOSE i \in rest : \A k \in rest : i <= k
                      IN  <<SubSeq(line, 1, a - 1), SubSeq(line, a + 1, b - 1),
                            SubSeq(line, b + 1, Len(line))>>

\* _sections: the sections declared and their entries
NoSections == [declared |-> {}, entries |-> {}]

Entry(section, key, value) == [section |-> section, key |-> key, value |-> value]

\* self._sections[section] = OrderedDict() (line 173)
DeclareSection(s, section) ==
    [declared |-> s.declared \cup {section},
     entries  |-> {e \in s.entries : e.section # section}]

\* self._sections[section][key] = value (line 176)
SetEntry(s, section, key, value) ==
    [declared |-> s.declared,
     entries  |-> {e \in s.entries : ~(e.section = section /\ e.key = key)}
                  \cup {Entry(section, key, value)}]

\* the lines a project file is made of in the model
IniLines == {<<"[","s","]">>, <<"[","t","]">>, <<"k","=","v">>, <<"k","=">>, <<" ","j","=","w"," ">>, <<"k">>, <<"k","=","a","=","b">>, <<" ">>}

MaxLines == 3

IniFiles == UNION {[1..n -> IniLines] : n \in 0..MaxLines}

\* lines 162-165: the file is opened, no section yet
InitIni ==
    /\ InitPart
    /\ pc = "ini_read"
    /\ \E file \in IniFiles :
         loc = [file |-> file, read |-> 0, section |-> None,
                sections |-> NoSections, item |-> <<>>, got |-> None]

\* Lines 166-176: one turn of "for line in fp", or the end of the file
IniReadLine ==
    /\ pc = "ini_read"
    /\ IF loc.read = Len(loc.file)
       THEN pc' = "ini_loaded" /\ UNCHANGED <<loc, exc>>
       ELSE LET line  == strip(loc.file[loc.read + 1])
                parts == split_equals_2(line)
                next  == [loc EXCEPT !.read = @ + 1]
            IN  IF line = <<>>
                THEN loc' = next /\ UNCHANGED <<pc, exc>>
                ELSE IF HeaderEnds(line) # {}
                THEN /\ loc' = [next EXCEPT
                                  !.section = HeaderName(line),
                                  !.sections = DeclareSection(@, HeaderName(line))]
                     /\ UNCHANGED <<pc, exc>>
                ELSE IF Len(parts) # 2
                THEN /\ exc' = RaiseAbout("ValueError", "ini", "unpack")
                     /\ pc' = "ini_failed"
                     /\ loc' = next
                ELSE IF loc.section = None
                THEN /\ exc' = RaiseAbout("KeyError", "ini", "section")
                     /\ pc' = "ini_failed"
                     /\ loc' = next
                ELSE /\ loc' = [next EXCEPT
                                  !.sections = SetEntry(@, loc.section, parts[1], parts[2])]
                     /\ UNCHANGED <<pc, exc>>
    /\ PartUnchanged

\* IniFile.__getitem__ (lines 197-199)
IniGetItem(section, key) ==
    /\ pc = "ini_loaded"
    /\ LET found == {e \in loc.sections.entries : e.section = section /\ e.key = key}
       IN  IF section \notin loc.sections.declared
           THEN /\ exc' = RaiseAbout("KeyError", "getitem", "section")
                /\ loc' = [loc EXCEPT !.item = <<section, key>>]
           ELSE IF found = {}
           THEN /\ exc' = RaiseAbout("KeyError", "getitem", "key")
                /\ loc' = [loc EXCEPT !.item = <<section, key>>]
           ELSE /\ loc' = [loc EXCEPT !.item = <<section, key>>,
                                      !.got = (CHOOSE e \in found : TRUE).value]
                /\ UNCHANGED exc
    /\ pc' = "ini_got"
    /\ PartUnchanged

NextIni ==
    \/ IniReadLine
    \/ \E section \in {<<"s">>, <<"t">>}, key \in {<<"k">>, <<"j">>} : IniGetItem(section, key)

SpecIni == InitIni /\ [][NextIni]_vars


----------------------------------------------------------------------------
(* AgkBuild.create_debian_package: the argument checks (lines 1530-1570) *)

UpperSeq == <<"A","B","C","D","E","F","G","H","I","J","K","L","M","N","O","P","Q","R","S","T","U","V","W","X","Y","Z">>
LowerSeq == <<"a","b","c","d","e","f","g","h","i","j","k","l","m","n","o","p","q","r","s","t","u","v","w","x","y","z">>

\* str.lower() for the ASCII letters
lower(t) ==
    [i \in 1..Len(t) |->
        IF t[i] \in Upper THEN LowerSeq[CHOOSE k \in 1..26 : UpperSeq[k] = t[i]] ELSE t[i]]

\* str.isalnum() of one ASCII character
isalnum(c) == c \in Lower \cup Upper \cup Digit

\* the characters of [A-Za-z0-9_.+-] and of [A-Za-z0-9-]
EmailLocalChars == Lower \cup Upper \cup Digit \cup {"_", ".", "+", "-"}
EmailLabelChars == Lower \cup Upper \cup Digit \cup {"-"}

\* re.match(r"(^[A-Za-z0-9_.+-]+@[A-Za-z0-9-]+(\.[A-Za-z0-9-]+)+$)", t): a
\* local part, one "@", and two or more labels with "." between them
EmailMatches(t) ==
    \E a \in 2..(Len(t) - 1) :
        /\ t[a] = "@"
        /\ \A i \in 1..(a - 1) : t[i] \in EmailLocalChars
        /\ \A i \in (a + 1)..Len(t) : t[i] \in EmailLabelChars \cup {"."}
        /\ \E i \in (a + 1)..Len(t) : t[i] = "."
        /\ t[a + 1] # "." /\ t[Len(t)] # "."
        /\ \A i \in (a + 1)..(Len(t) - 1) : ~(t[i] = "." /\ t[i + 1] = ".")

\* the class of _validate_url (lines 148-151): letters, digits, the range
\* $-_ and the characters @.&+!*(),
UrlChars == Lower \cup Upper \cup Digit \cup {"$", "%", "&", "'", "(", ")", "*", "+", ",", "-", ".", "/", ":", ";", "<", "=", ">", "?", "@", "[", "]", "^", "_", "\\"} \cup {"!", "*", "(", ")", ","}

\* _validate_url raises: a homepage that re.match does not find to begin with
\* http:// or https:// and one character of the class (a %xx is one too)
UrlInvalid(homepage) ==
    /\ Truthy(homepage)
    /\ ~ \E prefix \in {<<"h","t","t","p",":","/","/">>, <<"h","t","t","p","s",":","/","/">>} :
            /\ Len(homepage) > Len(prefix)
            /\ SubSeq(homepage, 1, Len(prefix)) = prefix
            /\ homepage[Len(prefix) + 1] \in UrlChars

\* _is_power_of_2 (lines 144-145) for the widths of the model
IsPowerOf2(n) == n \in {1, 2, 4, 8, 16, 32, 64, 128, 256, 512, 1024}

\* lines 1546-1547: re.sub(r'[^A-Za-z0-9+.-]', '', self.project.name.lower())
DefaultPackageName ==
    SelectSeq(lower(name), LAMBDA c : c \in Lower \cup Upper \cup Digit \cup {"+", ".", "-"})

\* lines 1546-1552: what the package name is rejected for, "none" if it is not
DebPackageNameError(package_name) ==
    LET n == IF Truthy(package_name) THEN package_name ELSE DefaultPackageName
    IN  IF n = <<>> \/ Len(n) <= 2 THEN "package_name length"
        ELSE IF ~isalnum(n[1]) THEN "package_name start"
        ELSE "none"

\* lines 1530-1570: the first check the arguments fail, "none" if none
DebArgumentError(a) ==
    IF ~Truthy(a.email_name) THEN "email_name"
    ELSE IF ~Truthy(a.email_address) THEN "email_address"
    ELSE IF ~EmailMatches(a.email_address) THEN "email_address"
    ELSE IF ~Truthy(a.short_description) THEN "short_description"
    ELSE IF Len(strip(a.short_description)) >= 80 THEN "short_description"
    ELSE IF ~Truthy(a.long_description) THEN "long_description"
    ELSE IF DebPackageNameError(a.package_name) # "none"
    THEN DebPackageNameError(a.package_name)
    ELSE IF ~Truthy(a.usr_subfolder) THEN "usr_subfolder"
    ELSE IF UrlInvalid(a.homepage) THEN "homepage"
    ELSE IF ~EndsWith(a.icon.path, <<".","p","n","g">>) THEN "application_icon"
    ELSE IF ~a.icon.exists THEN "application_icon"
    ELSE IF a.icon.width # a.icon.height THEN "application_icon"
    ELSE IF ~IsPowerOf2(a.icon.width) THEN "application_icon"
    ELSE "none"

\* the arguments create_debian_package is called with
DebIcons == {[path |-> <<"i","c","o","n",".","p","n","g">>, exists |-> TRUE, width |-> 256, height |-> 256],
             [path |-> <<"i","c","o","n",".","p","n","g">>, exists |-> TRUE, width |-> 100, height |-> 100],
             [path |-> <<"i","c","o","n",".","j","p","g">>, exists |-> TRUE, width |-> 256, height |-> 256]}

DebPackageNames == {None, <<>>, <<"a">>, <<"a","b">>, <<"a","1">>, <<"a","b","c">>, <<"-","a","b">>, <<"-","a","b","c">>, <<"A","B","C">>, <<"9","l","i","v","e","s">>}

DebArguments ==
    [email_name : {<<"M","e">>},
     email_address : {<<"m","e","@","e","x",".","o","r","g">>, <<"m","e","@","e","x">>},
     short_description : {<<"A"," ","g","a","m","e">>, [i \in 1..80 |-> "x"]},
     long_description : {<<"L","o","n","g",".">>},
     package_name : DebPackageNames,
     usr_subfolder : {<<"g","a","m","e","s">>},
     homepage : {None, <<"h","t","t","p",":","/","/","a",".","b">>, <<"f","t","p",":","/","/","a",".","b">>},
     icon : DebIcons]

\* build.create_debian_package(...) is called on the build of a project
InitDeb ==
    /\ name \in Names /\ version = S_1_2 /\ release_name = None /\ call = NoCall
    /\ InitFiles
    /\ media_exclude_dir = FALSE /\ build_tmp = FALSE
    /\ ini = DefaultIni
    /\ platforms = {} /\ exclude_media = <<>> /\ include_files = <<>>
    /\ kwargs = NoKwargs /\ call_kwargs = NoKwargs
    /\ mode = "none" /\ exc = NoExc
    /\ target = "none" /\ cursor = 0
    /\ release_paths = NoReleasePaths
    /\ pc = "deb_called"
    /\ \E a \in DebArguments : loc = a

\* Lines 1530-1570: the checks before the loop over the platforms
DebCheckArguments ==
    /\ pc = "deb_called"
    /\ LET e == DebArgumentError(loc)
       IN  /\ exc' = IF e = "none" THEN exc ELSE RaiseAbout("ValueError", "deb_checks", e)
           /\ pc' = IF e = "none" THEN "deb_checked" ELSE "deb_rejected"
    /\ UNCHANGED loc
    /\ PartUnchanged

SpecDeb == InitDeb /\ [][DebCheckArguments]_vars

----------------------------------------------------------------------------
(* The build and its files: claims C1, C2, C3, C4 *)

\* AgkBuild(...) has ended, by its return or by an exception
BuildEnded == mode = "build" /\ pc = "done"

\* C1: whenever an AgkBuild construction that renamed main.agc ends, however
\* it ends, main.agc has its original content again and main.agc.backup is
\* gone.
C1_MainRestored ==
    BuildEnded => main_agc = "original" /\ backup_agc = Absent

\* A build that a failing jarsigner ended, mid-export, with main.agc back.
C1_Witness ==
    /\ BuildEnded
    /\ exc.kind = "SystemError" /\ exc.step = "sign"
    /\ main_agc = "original" /\ backup_agc = Absent

\* C2 as the specification states it: when the construction ends, with or
\* without an exception, the media folder is as it was found and media_exclude
\* does not exist. (A removal of media_exclude that the filesystem refuses is
\* left aside: that is the environment's failure, not the round trip's.)
C2_Original ==
    BuildEnded /\ exc.step # "remove_exclude" =>
        /\ media = OriginalMedia
        /\ ~media_exclude_dir
        /\ media_exclude = EmptyTree

\* the export has entered its try block: it did not leave by an error of
\* the settings or of the checks before it
StagingEntered == exc.step \notin {"resolve", "checks"}

ValidationRaised ==
    /\ exc.kind = "ValueError"
    /\ \/ exc.step = "checks"
       \/ exc.step = "package" /\ exc.what = "ouya_icon"
       \/ exc.step = "include_files"

\* C4 as the specification states it: when a validation rule fails, nothing
\* of the project or of the release tree has been created, renamed, removed
\* or rewritten.
C4_Original ==
    ValidationRaised =>
        /\ release_tree = {}
        /\ main_agc = "original" /\ backup_agc = Absent
        /\ media = OriginalMedia /\ media_exclude = EmptyTree
        /\ ~media_exclude_dir

----------------------------------------------------------------------------
(* Release Path Namer: claims C5, C6, C7 *)

\* the folder name of the kept call: the last component of the path
FolderName == call.result[3]

\* The segments a folder name is made of, the optional ones only when their
\* value is present, with archText as the text of the architecture set.
SegmentsWith(archText) ==
    <<safe_name>>
    \o (IF Truthy(version) THEN <<version>> ELSE <<>>)
    \o <<call.platform_name>>
    \o (IF call.architectures # 0 THEN <<archText>> ELSE <<>>)
    \o (IF Truthy(release_name) THEN <<release_name>> ELSE <<>>)

\* C5: get_release_folder returns <base>/release/ followed by the safe name,
\* the version, the platform label, the architecture text and the release
\* qualifier in that order, joined by single underscores, where an optional
\* segment is there exactly when its value is present and takes its
\* separator with it when absent.
C5_ReleaseFolderFormat ==
    call.made =>
        call.result = <<base_path, "release",
                        Join(SegmentsWith(ArchStr(call.architectures)), <<"_">>)>>

\* C5 witness: a call with one optional segment absent (an empty version)
\* and the other two present.
C5_Witness ==
    /\ call.made
    /\ version = <<>>
    /\ call.architectures = 3
    /\ release_name = S_beta

\* the scenario of C6: MyGame, version 1.2, qualifier beta, windows, both
\* architectures
C6_Scenario ==
    /\ call.made
    /\ name = S_MyGame
    /\ version = S_1_2
    /\ release_name = S_beta
    /\ call.platform_name = S_windows
    /\ call.architectures = 3

\* C6 as stated: the scenario's folder name is MyGame_1.2_windows_x86_x64_beta.
C6_Original ==
    C6_Scenario =>
        FolderName = <<"M","y","G","a","m","e","_","1",".","2","_",
                       "w","i","n","d","o","w","s","_","x","8","6","_","x","6","4",
                       "_","b","e","t","a">>

\* the text of each non-empty architecture set, written out
ArchText == << <<"x","8","6">>, <<"x","6","4">>, <<"x","8","6","_","6","4">> >>

\* C6 (amended): the scenario's folder name is MyGame_1.2_windows_x86_64_beta;
\* in general the architecture segment is the letter x followed by the
\* members' numbers (86, 64) joined by underscore, 32-bit before 64-bit.
C6_ArchitectureSegment ==
    /\ C6_Scenario =>
        FolderName = <<"M","y","G","a","m","e","_","1",".","2","_",
                       "w","i","n","d","o","w","s","_","x","8","6","_","6","4",
                       "_","b","e","t","a">>
    /\ (call.made /\ call.architectures # 0) =>
        FolderName = Join(SegmentsWith(ArchText[call.architectures]), <<"_">>)

\* C6 witness: the scenario itself has been computed.
C6_Witness == C6_Scenario

HasDoubledUnderscore(s) == \E i \in 1..(Len(s) - 1) : s[i] = "_" /\ s[i + 1] = "_"

NoEdgeUnderscore(s) == s # <<>> /\ s[1] # "_" /\ s[Len(s)] # "_"

CleanSegment(s) == NoEdgeUnderscore(s) /\ ~HasDoubledUnderscore(s)

\* what follows the display-name segment in the folder name
AfterDisplayName ==
    (IF Truthy(version) THEN <<"_">> \o version ELSE <<>>)
    \o <<"_">> \o call.platform_name
    \o (IF call.architectures # 0
        THEN <<"_">> \o ArchText[call.architectures] ELSE <<>>)
    \o (IF Truthy(release_name) THEN <<"_">> \o release_name ELSE <<>>)

\* The display-name segment is what stands before AfterDisplayName: it holds
\* characters of [A-Za-z0-9_] only, and all of those the name has.
DisplaySegmentSafe ==
    LET f == FolderName
        k == Len(f) - Len(AfterDisplayName)
    IN  /\ k >= 0
        /\ SubSeq(f, k + 1, Len(f)) = AfterDisplayName
        /\ \A i \in 1..k : f[i] \in SafeChars
        /\ k = Cardinality({i \in 1..Len(name) : name[i] \in SafeChars})

\* C7 as stated: for every name, version, label, architecture set and
\* qualifier the folder name has no doubled underscore, no leading and no
\* trailing underscore, and a display-name segment of [A-Za-z0-9_] only.
C7_Original ==
    call.made =>
        /\ ~HasDoubledUnderscore(FolderName)
        /\ NoEdgeUnderscore(FolderName)
        /\ DisplaySegmentSafe

\* C7 (amended): the display-name segment holds characters of [A-Za-z0-9_]
\* only, for every input; the folder name has no doubled, leading or
\* trailing underscore provided the name keeps at least one character and
\* none of the stripped name, the version and the qualifier (when present)
\* itself begins or ends with an underscore or holds a doubled one.
C7_NoStraySeparator ==
    call.made =>
        /\ DisplaySegmentSafe
        /\ ( /\ CleanSegment(SelectSeq(name, LAMBDA c : c \in SafeChars))
             /\ Truthy(version) => CleanSegment(version)
             /\ Truthy(release_name) => CleanSegment(release_name) )
           => ( /\ ~HasDoubledUnderscore(FolderName)
                /\ NoEdgeUnderscore(FolderName) )

\* C7 witness: a name that loses characters, with version and qualifier.
C7_Witness ==
    /\ call.made
    /\ name = S_My_G
    /\ version = S_1_2
    /\ release_name = S_beta
    /\ call.architectures = 3

----------------------------------------------------------------------------
(* Settings and the manifest: claims C8, C9, C10 *)

\* C8 as the specification states it: of an export that has resolved its
\* settings or failed to, every setting given as an override resolved to the
\* override's value, and none of them raised for want of a stored value.
C8_Original ==
    \A n \in ApkNames :
        target \in ApkPlatforms /\ Override(n) # None =>
            /\ ~(exc.step = "resolve" /\ exc.kind = "KeyError" /\ exc.what = n)
            /\ (pc = "apk_checks" => loc.raw[n] = Override(n))

\* C9 as the specification states it: the HTML5 export of a build that was
\* given html5_commands_used uses that value.
C9_Original ==
    /\ mode = "build" /\ target = "HTML5" /\ pc = "html5_stage"
    /\ kwargs[<<"html5", "commands_used">>] # None
    => loc.commands_used = IntOf(kwargs[<<"html5", "commands_used">>])

\* the uses-permission and permission lines of a manifest header
PermissionLines(header) ==
    SelectSeq(header, LAMBDA l : l.tag \in {"uses-permission", "permission"})

\* the manifest header of the running export_apk has been written
HeaderWritten == target \in ApkPlatforms /\ pc = "apk_values"

----------------------------------------------------------------------------
(* The manifest: claims C11, C12, C13 *)

\* the settings of the running export_apk are resolved, or have failed to
ApkResolved == target \in ApkPlatforms /\ (pc = "apk_checks" \/ exc.step = "resolve")

\* the orientation the export is asked for is a number outside its range: an
\* override that is not a value of Orientation, or with no override a stored
\* index that is none of 0, 1, 2
OrientationOutOfRange ==
    IF Override("orientation") # None
    THEN IsInt(Override("orientation"))
         /\ IntOf(Override("orientation")) \notin OrientationValues
    ELSE IniGet("apk_settings", "orientation") # None
         /\ IsInt(IniGet("apk_settings", "orientation"))
         /\ IntOf(IniGet("apk_settings", "orientation")) \notin 0..2

\* C11 as the specification states it: the orientation put into the manifest
\* is one of sensorLandscape, sensorPortrait, fullSensor, and an out-of-range
\* orientation value, stored or overridden, gives fullSensor and no error.
C11_Original ==
    /\ HeaderWritten /\ "screenOrientation" \notin loc.manifest.unmatched
       => loc.manifest.orientation \in {"sensorLandscape", "sensorPortrait", "fullSensor"}
    /\ ApkResolved /\ OrientationOutOfRange
       => /\ ~(exc.step = "resolve" /\ exc.what = "orientation")
          /\ (pc = "apk_checks" => ORIENTATION_NAMES(loc.orientation) = "fullSensor")

\* the checks of the running export_apk have passed, or one has failed
ApkChecked == target \in ApkPlatforms /\ (pc = "apk_stage" \/ exc.step = "checks")

\* the deep link starts with http:// or https:// and goes on after it
DeepLinkValid(t) ==
    \/ StartsWith(t, <<"h","t","t","p",":","/","/">>) /\ Len(t) > Len(<<"h","t","t","p",":","/","/">>)
    \/ StartsWith(t, <<"h","t","t","p","s",":","/","/">>) /\ Len(t) > Len(<<"h","t","t","p","s",":","/","/">>)

\* C12 as the specification states it: a non-empty deep_link passes the checks
\* exactly when it starts with http:// or https:// and has something after
\* the scheme; any other non-empty value ends the export in the checks, before
\* a manifest is made.
C12_Original ==
    ApkChecked /\ Truthy(loc.raw["deep_link"]) =>
        IF DeepLinkValid(loc.raw["deep_link"])
        THEN ~(exc.step = "checks" /\ exc.what = "deep_link")
        ELSE exc.step = "checks" /\ exc.kind = "ValueError"

\* a feature that may call for a block: whether the settings request it and
\* whether the variant supports it
Ground(requested, supported) == [requested |-> requested, supported |-> supported]

\* The features each block belongs to, as the specification has them: the
\* permission bits, the Google Play app id, the Firebase config, the AdMob app
\* id and the ARCore mode are the requests; Google Play services (sign-in,
\* billing, expansion, push, AdMob, ARCore) are supported by the Google
\* variant, Firebase by the Google and Amazon variants.
GroundsOf(b, l) ==
    LET f == l.permission_flags
        google == l.app_type = APK_TYPE_GOOGLE
        firebase == Ground(Truthy(l.raw["firebase_config_path"]),
                           l.app_type \in {APK_TYPE_GOOGLE, APK_TYPE_AMAZON})
        push == Ground(HasFlag(f, 128), google)
        play == Ground(Truthy(l.raw["play_app_id"]), google)
    IN  CASE b = "expansion_downloader" -> {Ground(HasFlag(f, 32), google)}
          [] b = "google_sign_in" -> {play}
          [] b = "billing_activity" -> {Ground(HasFlag(f, 16), google)}
          [] b = "google_api_activity" -> {play}
          [] b = "firebase_init_provider" -> {play, firebase, push}
          [] b = "measurement" -> {firebase}
          [] b = "instance_id_receiver" -> {firebase, push}
          [] b = "push_messaging" -> {push}
          [] b = "admob_provider" -> {Ground(Truthy(l.raw["admob_app_id"]), google)}
          [] b = "arcore" -> {Ground(l.arcore_mode # 0, google)}

\* C13 as the specification states it: every feature block of a written
\* manifest, and the ARCore feature line of its header, is there for a
\* feature that the settings request and that the variant supports as well.
C13_Original ==
    HeaderWritten =>
        /\ \A b \in loc.manifest.blocks :
              \E g \in GroundsOf(b, loc) : g.requested /\ g.supported
        /\ (\E i \in 1..Len(loc.header) :
               loc.header[i] = Line("uses-feature", "android.hardware.camera.ar"))
           => loc.arcore_mode = 2 /\ loc.app_type = APK_TYPE_GOOGLE

----------------------------------------------------------------------------
(* values.xml and the packaging tool: claims C14, C15, C16 *)

\* the values.xml step of the running export_apk has ended
ValuesDone == target \in ApkPlatforms /\ (pc = "apk_package" \/ exc.step = "values")

\* what the step can fail about before it looks for the client
BeforeClientLookup == {"app_name", "games_app_id", "admob_app_id", "config",
                       "project_number", "gcm_defaultSenderId", "firebase_url",
                       "firebase_database_url"}

\* the clients of the config for the export's package name
MatchingClients ==
    SelectSeq(loc.config.client, LAMBDA c : c.package_name = loc.raw["package_name"])

\* C14 as the specification states it: an export that uses a Firebase config
\* and comes to look for its client injects the mobilesdk_app_id and
\* current_key of the client whose package_name is the export's, wherever it
\* stands in the list (or fails about one of those entries); with no such
\* client it fails with a ValueError about the client of that package name.
C14_Original ==
    /\ ValuesDone /\ IncludeFirebase(loc.raw, loc.app_type)
    /\ exc.what \notin BeforeClientLookup
    => IF MatchingClients # <<>>
       THEN \/ /\ pc = "apk_package"
               /\ loc.values.google_app_id = MatchingClients[1].mobilesdk_app_id
               /\ loc.values.google_api_key = MatchingClients[1].current_key
            \/ /\ exc.step = "values"
               /\ exc.what \in {"google_app_id", "google_api_key",
                                "google_crash_reporting_api_key"}
       ELSE exc.step = "values" /\ exc.kind = "ValueError" /\ exc.what = "client"

\* C15 as the specification states it: a manifest or a values.xml that
\* export_apk has written without an error has had every pattern it was to
\* replace matched; a pattern that matches nothing is an error about it.
C15_Original ==
    /\ HeaderWritten => loc.manifest.unmatched = {}
    /\ target \in ApkPlatforms /\ pc = "apk_package" => loc.values.unmatched = {}
    /\ target \in ApkPlatforms /\ exc.step = "values" /\ exc.kind = "ValueError"
       => exc.what \in ValuesEntries \cup {"config", "client"}

\* the packaging tool has run a batch and answered it
Aapt2Ran == pc = "aapt2_done" /\ exc.kind # "ValueError"

\* the lines of the answer that are neither Error nor Done
OtherLines == SelectSeq(loc.stderr_lines, LAMBDA e : e \notin {<<"E","r","r","o","r">>, <<"D","o","n","e">>})

HasErrorLine == \E i \in 1..Len(loc.stderr_lines) : loc.stderr_lines[i] = <<"E","r","r","o","r">>

\* C16 as the specification states it, line by line: the batch fails with
\* the reported error exactly when a line other than Error and Done is not
\* empty; failing that it fails with the unspecified error exactly when there
\* is an Error line; and it succeeds only for an empty stderr or Done lines
\* alone.
C16_Original ==
    Aapt2Ran =>
        LET content == \E i \in 1..Len(OtherLines) : OtherLines[i] # <<>>
        IN  /\ exc.what = "reported" <=> content
            /\ exc.what = "unspecified" <=> ~content /\ HasErrorLine
            /\ exc = NoExc <=> ~content /\ ~HasErrorLine
            /\ exc = NoExc =>
                   \/ loc.stderr_lines = << <<>> >>
                   \/ \A i \in 1..Len(loc.stderr_lines) : loc.stderr_lines[i] = <<"D","o","n","e">>

\* C16: the lines equal to Error or Done are left out of the answer and the
\* rest is joined by newlines. If the joined text is not empty (a line with
\* text is left, or two or more blank lines are) the batch fails with the
\* reported error; failing that, it fails with the unspecified error if there
\* was an Error line; failing that (Done lines and at most one blank line) it
\* succeeds.
C16_Classified ==
    Aapt2Ran =>
        LET content == \/ \E i \in 1..Len(OtherLines) : OtherLines[i] # <<>>
                       \/ Len(OtherLines) >= 2
        IN  /\ exc.kind \in {"none", "SystemError"}
            /\ exc.what = "reported" <=> content
            /\ exc.what = "unspecified" <=> ~content /\ HasErrorLine
            /\ exc = NoExc <=> ~content /\ ~HasErrorLine
            /\ exc = NoExc =>
                   /\ Len(OtherLines) <= 1
                   /\ \A i \in 1..Len(loc.stderr_lines) :
                          loc.stderr_lines[i] \in {<<"D","o","n","e">>, <<>>}

\* The tool answered with an Error line and a line of text: the text is
\* reported.
C16_Witness ==
    /\ Aapt2Ran
    /\ HasErrorLine
    /\ \E i \in 1..Len(OtherLines) : OtherLines[i] # <<>>
    /\ exc.what = "reported"

----------------------------------------------------------------------------
(* The HTML5 data file and loader: claims C17, C18 *)

\* the data file of an HTML5 export is being built
BuildingBlob == pc \in {"blob_dirs", "blob_files", "blob_close", "blob_loader", "blob_done"}

\* a file name has one of the audio extensions: it ends with one, after a
\* stem that is not dots alone
HasAudioExtension(n) ==
    \E x \in AudioExtensions :
        /\ EndsWith(n, x)
        /\ \E j \in 1..(Len(n) - Len(x)) : n[j] # "."

\* C17: in the data file of an HTML5 export every folder directive is
\* recorded before any file is appended; the files are appended in the order
\* of the walk; the first file starts at 0, every file ends at its start plus
\* its length, every next file starts where the one before it ended, and
\* remote_package_size is the last end, the number of bytes written; a file
\* has audio flag 1 exactly when its extension is .mp3, .m4a, .wav or .ogg.
C17_Layout ==
    BuildingBlob =>
        LET walked == walk_filenames(loc.tree)
            files  == loc.files
        IN  /\ files # <<>> \/ loc.written > 0
               => Len(loc.additional_folders) = 1 + Len(loc.tree.dirs)
            /\ Len(files) <= Len(walked)
            /\ \A i \in 1..Len(files) :
                  /\ files[i].filename = ShortPath(walked[i].path)
                  /\ files[i].start = (IF i = 1 THEN 0 ELSE files[i - 1].end)
                  /\ files[i].end = files[i].start + walked[i].length
                  /\ files[i].audio \in {0, 1}
                  /\ files[i].audio = 1
                     <=> HasAudioExtension(walked[i].path[Len(walked[i].path)])
            /\ loc.remote_package_size # -1
               => /\ Len(files) = Len(walked)
                  /\ loc.remote_package_size = loc.written
                  /\ loc.remote_package_size =
                         (IF files = <<>> THEN 0 ELSE files[Len(files)].end)

\* A data file of a folder and three files is closed: the second file is
\* audio and starts where the first ended.
C17_Witness ==
    /\ pc = "blob_loader"
    /\ Len(loc.additional_folders) >= 2
    /\ Len(loc.files) = 3
    /\ loc.files[2].audio = 1 /\ loc.files[2].start > 0
    /\ loc.files[1].audio = 0
    /\ loc.remote_package_size = loc.files[3].end

\* an HTML5 export has filled in AGKPlayer.js without an error
LoaderFilled ==
    /\ target = "HTML5"
    /\ pc \in {"html5_output", "html5_cleanup", "export_end"}
    /\ loc # NoLoc
    /\ loc.loader # NoLoader

\* an HTML5 export has found AGKPlayer.js corrupt
LoaderCorrupt == target = "HTML5" /\ exc.step = "synth" /\ exc.kind = "ValueError"

\* C18 as the specification states it: each of the two variables of the loader
\* is substituted exactly once; a variable without a match is an error that
\* names it, and the release folder is not made.
C18_Original ==
    /\ LoaderFilled /\ ~loc.loader.raised
       => loc.loader.folders = 1 /\ loc.loader.load = 1
    /\ LoaderCorrupt
       => /\ exc.what \in {"%%ADDITIONALFOLDERS%%", "%%LOADPACKAGE%%"}
          /\ ReleaseDir(loc.output_folder) \notin release_tree

\* C18: every match of each of the two variables of the loader is
\* substituted, and each variable has at least one match; a variable without
\* a match is an error that names it, raised before the release folder is
\* removed or made.
C18_Substituted ==
    /\ LoaderFilled /\ ~loc.loader.raised
       => loc.loader.folders >= 1 /\ loc.loader.load >= 1
    /\ LoaderFilled /\ loc.loader.raised => LoaderCorrupt \/ exc.step = "cleanup"
    /\ LoaderCorrupt
       => /\ \/ exc.what = "%%ADDITIONALFOLDERS%%" /\ loc.loader.folders = 0
             \/ exc.what = "%%LOADPACKAGE%%" /\ loc.loader.load = 0
          /\ ReleaseDir(loc.output_folder) \notin release_tree

\* An export ended by a loader without %%LOADPACKAGE%%, nothing released.
C18_Witness ==
    /\ LoaderCorrupt
    /\ pc = "export_end"
    /\ exc.what = "%%LOADPACKAGE%%"
    /\ loc.loader.folders = 2
    /\ release_tree = {}

----------------------------------------------------------------------------
(* Archives: claim C19 *)

\* archive(platforms) has ended, by its return or by an exception
ArchiveEnded == mode = "build" /\ pc = "archived"

\* the release folder the build made for a platform that is not an APK
ReleaseFolderOf(p) ==
    IF p \in WindowsPlatforms THEN get_release_folder(S_windows, from_platform(p))
    ELSE IF p \in LinuxPlatforms THEN get_release_folder(S_linux, from_platform(p))
    ELSE get_release_folder(S_html5, 0)

\* C19: after archive(platforms) returns, for every platform asked for that
\* is not an APK and was exported, the release folder is gone, the zip is
\* beside it at <release_path>.zip and release_paths[platform] is the zip; a
\* request that holds GOOGLE_APK, AMAZON_APK or OUYA_APK ends in an error.
C19_Archived ==
    ArchiveEnded =>
        /\ exc = NoExc =>
             \A p \in (loc.archive \cap platforms) \ ApkPlatforms :
                 /\ ReleaseDir(ReleaseFolderOf(p)) \notin release_tree
                 /\ ReleaseFile(ReleaseFolderOf(p), "zip") \in release_tree
                 /\ release_paths[p] = ReleaseFile(ReleaseFolderOf(p), "zip")
        /\ loc.archive \cap ApkPlatforms # {}
           => exc.kind \in {"ValueError", "OSError", "KeyError"}
        /\ exc.kind = "ValueError" => loc.archive \cap ApkPlatforms # {}

\* Both release folders of a build for Windows and HTML5 were archived.
C19_Witness ==
    /\ ArchiveEnded
    /\ exc = NoExc
    /\ platforms = {"WINDOWS_86_64", "HTML5"}
    /\ loc.archive = {"WINDOWS_86_64", "HTML5"}
    /\ release_paths["HTML5"] = ReleaseFile(ReleaseFolderOf("HTML5"), "zip")
    /\ ReleaseDir(ReleaseFolderOf("WINDOWS_86_64")) \notin release_tree

----------------------------------------------------------------------------
(* The project file: claim C20 *)

\* line i of the file read, stripped
IniLineAt(i) == strip(loc.file[i])

IsHeaderLine(i) == HeaderEnds(IniLineAt(i)) # {}

IsEntryLine(i) == IniLineAt(i) # <<>> /\ ~IsHeaderLine(i)

\* the section declared last before line i, None if there is none
SectionBefore(i) ==
    LET headers == {h \in 1..(i - 1) : IsHeaderLine(h)}
    IN  IF headers = {} THEN None
        ELSE HeaderName(IniLineAt(CHOOSE h \in headers : \A k \in headers : k <= h))

\* the key and the value of entry line i: the text before and after its
\* first "="
KeyOf(i) ==
    LET l == IniLineAt(i)
    IN  SubSeq(l, 1, (CHOOSE a \in EqualsAt(l) : \A k \in EqualsAt(l) : a <= k) - 1)

ValueOf(i) ==
    LET l == IniLineAt(i)
    IN  SubSeq(l, (CHOOSE a \in EqualsAt(l) : \A k \in EqualsAt(l) : a <= k) + 1, Len(l))

\* C20 as the specification states it: reading fails only at an entry line
\* that comes before any section header or has no "=" and value; a file that
\* was read has each key=value entry under the section declared last before
\* it, unless a later entry of that section set the key again; and the
\* lookup of a section or key that is not there raises KeyError.
C20_Original ==
    /\ pc = "ini_failed"
       => \/ SectionBefore(loc.read) = None
          \/ EqualsAt(IniLineAt(loc.read)) = {}
    /\ pc \in {"ini_loaded", "ini_got"}
       => \A i \in 1..Len(loc.file) :
              IsEntryLine(i)
              => \/ Entry(SectionBefore(i), KeyOf(i), ValueOf(i)) \in loc.sections.entries
                 \/ \E j \in (i + 1)..Len(loc.file) :
                       /\ IsEntryLine(j)
                       /\ SectionBefore(j) = SectionBefore(i)
                       /\ KeyOf(j) = KeyOf(i)
    /\ pc = "ini_got" /\ loc.got = None => exc.kind = "KeyError"

----------------------------------------------------------------------------
(* Debian packages: claim C21 *)

\* create_debian_package has checked its arguments
DebChecksDone == pc \in {"deb_checked", "deb_rejected"}

\* the package name the checks are made on
EffectivePackageName ==
    IF Truthy(loc.package_name) THEN loc.package_name ELSE DefaultPackageName

\* C21 as the documentation states it: a package name of two or more
\* characters that starts with a letter or digit is not what the call is
\* rejected for, and a package name of fewer than two characters is rejected.
C21_Original ==
    DebChecksDone =>
        LET n == EffectivePackageName
        IN  /\ Len(n) >= 2 /\ isalnum(n[1])
               => exc.what \notin {"package_name length", "package_name start"}
            /\ Len(n) < 2 => pc = "deb_rejected"

----------------------------------------------------------------------------
(* Build sequencing: claim C22 *)

\* the steps of AgkBuild.__init__ up to the compilation
BeforeExports == {"construct", "rewrite", "exclude", "compile"}

\* the steps a build goes through once something was raised
AfterFailure == {"html5_cleanup", "apk_cleanup", "export_end", "finally", "done"}

\* the platforms release_paths has a key for
Released == {p \in Platform : release_paths[p] # NoPath}

C22_State ==
    mode = "build" =>
        /\ pc \in BeforeExports => cursor = 0 /\ Released = {}
        /\ exc # NoExc /\ pc # "archived" => pc \in AfterFailure
        /\ Released \subseteq {ExportOrder[i] : i \in 1..cursor} \cap platforms
        /\ pc = "done" /\ exc = NoExc => Released = platforms

C22_Step ==
    mode = "build" =>
        /\ pc' = "compile" => pc = "exclude"
        /\ pc = "compile" => pc' \in {"export", "finally"}
        /\ pc' \in BeforeExports => pc \in BeforeExports
        /\ cursor' # cursor
           => /\ pc = "export" /\ exc = NoExc
              /\ cursor' > cursor
              /\ ExportOrder[cursor'] \in platforms
              /\ \A i \in (cursor + 1)..(cursor' - 1) : ExportOrder[i] \notin platforms
        /\ exc # NoExc => cursor' = cursor /\ release_paths' = release_paths

----------------------------------------------------------------------------
(* The manifest again: claims C23, C24, C25, C28 *)

\* the intent filters of the deep link in the manifest written
DeepLinkFilters ==
    SelectSeq(loc.manifest.filters, LAMBDA f : f.kind = "deep_link")

\* C23 as the specification states it: a manifest made for a valid deep link
\* (from a template that has the place for the filters) has one filter of the
\* deep link, opened and closed, whose scheme, host and path prefix are those
\* of the link, the path prefix being there when the link has a path.
C23_Original ==
    /\ HeaderWritten
    /\ DeepLinkValid(loc.raw["deep_link"])
    /\ "ADDITIONAL_INTENT_FILTERS" \notin loc.manifest.unmatched
    => /\ Len(DeepLinkFilters) = 1
       /\ DeepLinkFilters[1].opened /\ DeepLinkFilters[1].closed
       /\ DeepLinkFilters[1].scheme = DeepLinkGroups(loc.raw["deep_link"]).scheme
       /\ DeepLinkFilters[1].host = DeepLinkGroups(loc.raw["deep_link"]).host
       /\ DeepLinkFilters[1].path = DeepLinkGroups(loc.raw["deep_link"]).path

\* the android:name values of the uses-permission and permission lines of
\* the header that was written
HeaderNames == {loc.header[i].name : i \in {k \in DOMAIN loc.header :
                    loc.header[k].tag \in {"uses-permission", "permission"}}}

\* the permission lines of the Google services, and those of every variant,
\* each with its bit of the Permission flags (lines 83-94)
GoogleLines ==
    { <<"android.permission.BILLING", 16>>,
      <<"package.permission.C2D_MESSAGE", 128>>,
      <<"android.permission.ACCESS_COARSE_LOCATION", 64>>,
      <<"android.permission.ACCESS_FINE_LOCATION", 8>>,
      <<"android.permission.CHECK_LICENSE", 32>> }
CommonLines ==
    { <<"android.permission.WRITE_EXTERNAL_STORAGE", 1>>,
      <<"android.permission.INTERNET", 2>>,
      <<"android.permission.WAKE_LOCK", 4>>,
      <<"android.permission.CAMERA", 256>>,
      <<"android.permission.VIBRATE", 512>>,
      <<"android.permission.RECORD_AUDIO", 1024>> }

\* C24: in the header of every manifest, the billing, push (C2D_MESSAGE),
\* coarse-location, fine-location and expansion (CHECK_LICENSE) lines are
\* there exactly when the bit is set and the variant is Google, so that an
\* Amazon or Ouya manifest has none of them whatever the bitmask; the write,
\* internet, wake, camera, vibrate and record-audio lines are there exactly
\* when their bit is set, for every variant.
C24_PermissionLines ==
    HeaderWritten =>
        /\ \A g \in GoogleLines :
             g[1] \in HeaderNames
                <=> (HasFlag(loc.permission_flags, g[2])
                       /\ loc.app_type = APK_TYPE_GOOGLE)
        /\ \A c \in CommonLines :
             c[1] \in HeaderNames <=> HasFlag(loc.permission_flags, c[2])

\* an Amazon manifest whose bitmask has every bit set: the six common lines
\* are in its header and none of the Google lines is
C24_Witness ==
    /\ HeaderWritten
    /\ loc.app_type = APK_TYPE_AMAZON
    /\ \A x \in GoogleLines \cup CommonLines : HasFlag(loc.permission_flags, x[2])
    /\ {c[1] : c \in CommonLines} \subseteq HeaderNames
    /\ HeaderNames \cap {g[1] : g \in GoogleLines} = {}

\* a Google export whose settings were resolved with the push bit set and no
\* Firebase config path
PushWithoutFirebase ==
    /\ target = "GOOGLE_APK" /\ loc # NoLoc
    /\ HasFlag(loc.permission_flags, 128)
    /\ ~Truthy(loc.raw["firebase_config_path"])

\* C25: a Google export with the push bit set and no Firebase config is in
\* its checks or has failed in them with a ValueError, and has staged nothing
\* and written no manifest; and a manifest that has the push messaging block
\* was made with a Firebase config.
C25_PushNeedsFirebase ==
    /\ PushWithoutFirebase =>
         /\ pc = "apk_checks" \/ (exc.kind = "ValueError" /\ exc.step = "checks")
         /\ ~loc.manifest.written
    /\ target \in ApkPlatforms /\ loc # NoLoc /\ loc.manifest.written
         /\ "push_messaging" \in loc.manifest.blocks
         => Truthy(loc.raw["firebase_config_path"])

\* a Google export with the push bit set and every other setting in order
\* was refused by the last of the checks
C25_Witness ==
    /\ PushWithoutFirebase
    /\ exc = RaiseAbout("ValueError", "checks", "push_needs_firebase")

\* a manifest with the push messaging block
C25_PushBlock ==
    /\ target = "GOOGLE_APK" /\ loc # NoLoc /\ loc.manifest.written
    /\ "push_messaging" \in loc.manifest.blocks

\* C28 as the specification states it: in the uses-sdk line of every
\* manifest header, whatever the variant and the SDK version selected,
\* android:minSdkVersion is at most android:targetSdkVersion.
C28_Original ==
    HeaderWritten => MinSdkVersion(loc) <= TargetSdkVersion(loc)

----------------------------------------------------------------------------
(* The signing credentials and the packaging batch: claims C26, C27 *)

\* the credentials of the bundled debug keystore (lines 581-584)
DebugCredentials ==
    [keystore_file |-> S_debug_keystore, keystore_password |-> S_android,
     alias_name |-> S_androiddebugkey, alias_password |-> S_android]

\* the credentials the export goes on with after its checks
SigningCredentials ==
    [keystore_file |-> loc.keystore_file, keystore_password |-> loc.keystore_password,
     alias_name |-> loc.alias_name, alias_password |-> loc.alias_password]

\* C26 as the specification states it: with no keystore the export signs with
\* the debug keystore, password android, alias androiddebugkey and alias
\* password android, and none of the keystore and alias checks refuses it,
\* whatever the alias settings are; with a keystore and no alias the alias is
\* mykeystore and its password the keystore password; a keystore with no
\* keystore password is refused in the checks.
C26_Original ==
    ApkChecked =>
        /\ ~Truthy(loc.raw["keystore_path"]) =>
             /\ exc.what \notin {"keystore", "keystore_password", "alias_password"}
             /\ pc = "apk_stage" => SigningCredentials = DebugCredentials
        /\ Truthy(loc.raw["keystore_path"]) /\ ~Truthy(loc.raw["alias"])
             /\ pc = "apk_stage"
             => /\ loc.alias_name = S_mykeystore
                /\ loc.alias_password = loc.keystore_password
        /\ Truthy(loc.raw["keystore_path"]) /\ loc.keystore_password = <<>>
             => exc.step = "checks"

\* the "with Aapt2(...)" block of an export was left by the ValueError of
\* line 1001: the Ouya icon is not 732x412
BlockFailed ==
    /\ target \in ApkPlatforms /\ loc # NoLoc
    /\ exc.step = "package"
    /\ loc.app_type = APK_TYPE_OUYA
    /\ loc.raw["ouya_icon_path"] \notin OuyaSized

\* C27 as the specification states it: when a step inside the construction
\* of the packaging batch fails, the tool is not run on the part of the batch
\* written so far, and the error of the export is that of the step.
C27_Original ==
    BlockFailed =>
        /\ loc.tool_input = "none"
        /\ exc = RaiseAbout("ValueError", "package", "ouya_icon")

----------------------------------------------------------------------------
(* The calls after the build: claim C29 *)

\* archive(platforms) was refused for a platform it cannot archive
ArchiveRefused == ArchiveEnded /\ exc.kind = "ValueError"

\* C29 as the specification states it, for archive: a call that raises for a
\* platform it does not accept has archived nothing for the other platforms
\* asked for: no zip was written and release_paths is as the build left it.
C29_Original ==
    ArchiveRefused =>
        \A p \in platforms \ ApkPlatforms :
            /\ ReleaseFile(ReleaseFolderOf(p), "zip") \notin release_tree
            /\ release_paths[p] # ReleaseFile(ReleaseFolderOf(p), "zip")

----------------------------------------------------------------------------
(* Overrides of settings the project file does not store: claim C30 *)

\* the export ended in its resolution with the KeyError of IniFile.__getitem__
NotFoundRaised == exc.step = "resolve" /\ exc.kind = "KeyError"

\* C30 as the specification states it: the not-found error of a resolution
\* is never about a setting that was supplied as an override; an export that
\* raises it lacks a stored value for a setting with no override.
C30_Original ==
    /\ target \in ApkPlatforms /\ NotFoundRaised => Override(exc.what) = None
    /\ target = "HTML5" /\ NotFoundRaised =>
         \E n \in Html5Names : /\ IniGet("html5_settings", n) = None
                               /\ call_kwargs[<<"html5", n>>] = None

====
